----------------------- MODULE RecoveryServiceProofs -----------------------
(***************************************************************************)
(* Proofs about RecoveryService, for any sign nodes, calls, retries and     *)
(* faults.  A claim and a credential never change once they are there       *)
(* (Kept); so a reply other than an error, and a state in a node's memory,  *)
(* stays what the Datastore of that node says (Good), however long it       *)
(* travels and whoever has written meanwhile.                               *)
(***************************************************************************)
EXTENDS RecoveryService, FiniteSetTheorems, TLAPS

Stages == Paths \cup {"absent", "idle", "relayer", "ok", "failed"}
Values == {None, Waiting, Failed, NodeKey} \cup (Nat \X Nat)
Replies == [SignNodes -> Values]
CallStates == [stage : Stages, round : Nat, tries : 0..MaxRetries,
               target : Replies \cup {None}, replies : Replies]
TaskStates == [call : Calls, round : Nat, node : SignNodes, path : Paths,
               pc : {"start", "insert_claim", "read_creds", "insert_creds"}]
SigningStates == [call : Calls, round : Nat, cred : Values]

StoreTypes ==
    /\ claims \in [SignNodes -> [Tokens -> Keys \cup {None}]]
    /\ creds \in [SignNodes -> [Users -> (Nat \X Nat) \cup {None}]]
    /\ stored \in [SignNodes -> BOOLEAN] /\ ready \in [SignNodes -> BOOLEAN]
    /\ faults \in 0..MaxFaults

Types ==
    /\ StoreTypes
    /\ committed \in [SignNodes -> SUBSET SigningStates]
    /\ revealed \in [SignNodes -> SUBSET SigningStates]
    /\ tasks \subseteq TaskStates
    /\ call \in [Calls -> CallStates]
    /\ recovery \in [Users -> SUBSET Replies]

\* The answer of node n, whose Datastore has these claims and credentials, to
\* call c is v: the token is claimed by the caller's key, and v is the node's
\* own key or the user's credential at the node.
Good(cl, cr, n, c, v) ==
    /\ cl[n][c.token] = c.key
    /\ c.kind = "claim_oidc" => v = NodeKey
    /\ c.kind # "claim_oidc" => v = cr[n][c.user] /\ cr[n][c.user] # None

\* A handler past the claim serves the key that has claimed the token.
Handlers ==
    \A t \in tasks :
        /\ t.round <= call[t.call].round
        /\ t.pc = "insert_claim" => t.call.kind = "claim_oidc"
        /\ t.pc \in {"read_creds", "insert_creds"} =>
              t.call.kind # "claim_oidc" /\ claims[t.node][t.call.token] = t.call.key
        /\ t.call.action # "other" => t.path = "public_key"

\* What a node remembers between rounds.
Memory ==
    \A n \in SignNodes : \A s \in committed[n] \cup revealed[n] :
        Good(claims, creds, n, s.call, s.cred) /\ s.round <= call[s.call].round /\ s.call.action = "other"

\* What the leader has been told.
Told ==
    \A c \in Calls :
        /\ call[c].stage \in Paths =>
              \A n \in SignNodes : call[c].replies[n] \in {Waiting, Failed}
                                   \/ Good(claims, creds, n, c, call[c].replies[n])
        /\ call[c].stage = "relayer" =>
              c.kind = "new_account" /\ \A n \in SignNodes : Good(claims, creds, n, c, call[c].replies[n])
        /\ call[c].stage = "ok" => \A n \in SignNodes : claims[n][c.token] = c.key

\* The recovery key of a user.
KeyOf(u) == [n \in SignNodes |-> creds[n][u]]

Recovered ==
    \A u \in Users : recovery[u] # {} =>
        recovery[u] = {KeyOf(u)} /\ \A n \in SignNodes : creds[n][u] # None

\* A deletion gets no further than the lookup of the key, and asks for a key
\* that the service has given out.
Deletions ==
    \A c \in Calls : c.action # "other" =>
        /\ call[c].stage \in {"absent", "idle", "public_key", "failed"}
        /\ c.action = "delete_recovery_key" /\ call[c].stage = "public_key"
              => call[c].target \in recovery[c.user]

IInv == Types /\ Handlers /\ Memory /\ Told /\ Recovered /\ Deletions
-----------------------------------------------------------------------------
(* What the Datastores hold is kept.                                        *)

\* The fields of a call.
LEMMA CallFacts ==
    ASSUME NEW c \in Calls
    PROVE  /\ c.id \in Nat /\ c.token \in Tokens /\ c.user \in Users
           /\ c.key \in Keys /\ c.key # None
           /\ c.kind \in {"claim_oidc", "user_credentials", "new_account", "sign"}
           /\ c.action \in {"other", "delete_recovery_key", "delete_account"}
           /\ c.kind # "sign" => c.action = "other"
<1>1. c \in CallType
  BY RecoveryAssumption
<1> QED
  BY <1>1, RecoveryAssumption DEF CallType

\* No step takes back or changes a claim or a credential.
Kept ==
    /\ \A n \in SignNodes, k \in Tokens : claims[n][k] # None => claims'[n][k] = claims[n][k]
    /\ \A n \in SignNodes, u \in Users : creds[n][u] # None => creds'[n][u] = creds[n][u]

\* What was a good answer stays one.
LEMMA GoodStays ==
    ASSUME Kept, NEW n \in SignNodes, NEW c \in Calls, NEW v, Good(claims, creds, n, c, v)
    PROVE  Good(claims', creds', n, c, v)
  BY CallFacts DEF Kept, Good

\* The recovery key of a user stays.
LEMMA RecoveredStays ==
    ASSUME Recovered, Kept, UNCHANGED recovery
    PROVE  Recovered'
<1> SUFFICES ASSUME NEW u \in Users, recovery[u] # {}
             PROVE  recovery[u] = {KeyOf(u)'} /\ \A n \in SignNodes : creds'[n][u] # None
  BY DEF Recovered
<1>1. \A n \in SignNodes : creds[n][u] # None /\ creds'[n][u] = creds[n][u]
  BY DEF Recovered, Kept
<1>2. KeyOf(u)' = KeyOf(u)
  BY <1>1 DEF KeyOf
<1> QED
  BY <1>1, <1>2 DEF Recovered

\* A step that leaves the Datastores alone keeps what they hold.
LEMMA UnchangedKept ==
    ASSUME UNCHANGED <<claims, creds>>
    PROVE  Kept
  BY DEF Kept

-----------------------------------------------------------------------------
(* What the leader does with a call.                                        *)

\* Another round is posted.
LEMMA PostKeeps ==
    ASSUME IInv, NEW c \in Calls, NEW path \in Paths, NEW tries \in 0..MaxRetries,
           NEW target \in Replies \cup {None}, Post(c, path, tries, target),
           UNCHANGED <<claims, creds, stored, ready, committed, revealed, recovery, faults>>,
           c.action # "other" => path = "public_key",
           c.action = "delete_recovery_key" => target \in recovery[c.user]
    PROVE  IInv'
<1> DEFINE round == call[c].round + 1
           new == [stage |-> path, round |-> round, tries |-> tries, target |-> target,
                   replies |-> [n \in SignNodes |-> Waiting]]
<1>1. /\ call' = [call EXCEPT ![c] = new]
      /\ tasks' = tasks \cup {[call |-> c, round |-> round, node |-> n, path |-> path,
                               pc |-> "start"] : n \in SignNodes}
  BY DEF Post
<1>2. call \in [Calls -> CallStates] /\ tasks \subseteq TaskStates
  BY DEF IInv, Types
<1>3. call[c].round \in Nat /\ round \in Nat /\ call[c].round <= round
  BY <1>2 DEF CallStates
<1> HIDE DEF round
<1>4. new \in CallStates
  BY <1>3 DEF CallStates, Stages, Replies, Values
<1>5. /\ new.stage = path /\ new.round = round /\ new.target = target
      /\ \A n \in SignNodes : new.replies[n] = Waiting
  OBVIOUS
<1> HIDE DEF new
<1>6. /\ call' \in [Calls -> CallStates] /\ call'[c] = new
      /\ \A d \in Calls : d # c => call'[d] = call[d]
      /\ \A d \in Calls : call[d].round \in Nat /\ call'[d].round \in Nat
                           /\ call[d].round <= call'[d].round
  <2>1. /\ call' \in [Calls -> CallStates] /\ call'[c] = new
        /\ \A d \in Calls : d # c => call'[d] = call[d]
    BY <1>1, <1>2, <1>4
  <2>2. \A d \in Calls : call[d].round \in Nat
    BY <1>2 DEF CallStates
  <2> QED
    BY <1>3, <1>5, <2>1, <2>2
<1>7. ASSUME NEW t \in tasks'
      PROVE  \/ t \in tasks
             \/ /\ t \in TaskStates /\ t.call = c /\ t.round = round /\ t.path = path
                /\ t.pc = "start"
  BY <1>1, <1>3 DEF TaskStates
<1>8. Types'
  <2>1. tasks' \subseteq TaskStates
    BY <1>2, <1>7
  <2> QED
    BY <1>6, <2>1 DEF IInv, Types, StoreTypes
<1>9. Handlers'
  <2>1. ASSUME NEW t \in tasks' PROVE t.call \in Calls /\ t.round \in Nat
    BY <1>7, <1>2 DEF TaskStates
  <2> QED
    BY <1>3, <1>5, <1>6, <1>7, <2>1 DEF IInv, Handlers
<1>10. Memory'
  <2>1. \A n \in SignNodes : \A s \in committed[n] \cup revealed[n] : s.call \in Calls /\ s.round \in Nat
    BY DEF IInv, Types, SigningStates
  <2> QED
    BY <1>6, <2>1 DEF IInv, Memory
<1>11. Told'
  BY <1>5, <1>6 DEF IInv, Told, Paths
<1>12. Recovered'
  BY UnchangedKept, RecoveredStays DEF IInv
<1>13. Deletions'
  BY <1>5, <1>6 DEF IInv, Deletions
<1> QED
  BY <1>8, <1>9, <1>10, <1>11, <1>12, <1>13 DEF IInv

\* The call goes on without sign nodes, or ends; the aggregated key may have
\* been used.
LEMMA MoveKeeps ==
    ASSUME IInv, NEW c \in Calls, NEW stage \in {"relayer", "ok", "failed"},
           NEW tries \in 0..MaxRetries, Move(c, stage, tries),
           UNCHANGED <<claims, creds, stored, ready, committed, revealed>>,
           faults' \in 0..MaxFaults,
           UNCHANGED recovery \/ (Publish(c, call[c].replies) /\ c.kind # "claim_oidc"
                                   /\ \A n \in SignNodes : Good(claims, creds, n, c, call[c].replies[n])),
           stage = "relayer" => c.kind = "new_account",
           stage # "failed" => \A n \in SignNodes : Good(claims, creds, n, c, call[c].replies[n]),
           c.action # "other" => stage = "failed"
    PROVE  IInv'
<1>1. call' = [call EXCEPT ![c].stage = stage, ![c].tries = tries] /\ tasks' = tasks
  BY DEF Move
<1>2. call \in [Calls -> CallStates]
  BY DEF IInv, Types
<1>3. /\ call' \in [Calls -> CallStates]
      /\ call'[c].stage = stage /\ call'[c].round = call[c].round
      /\ call'[c].replies = call[c].replies /\ call'[c].target = call[c].target
      /\ \A d \in Calls : d # c => call'[d] = call[d]
  BY <1>1, <1>2 DEF CallStates, Stages
<1>4. \A d \in Calls : call'[d].round = call[d].round
  BY <1>3
<1>5. \/ UNCHANGED recovery
      \/ /\ recovery' = [recovery EXCEPT ![c.user] = recovery[c.user] \cup {KeyOf(c.user)}]
         /\ \A n \in SignNodes : creds[n][c.user] # None
         /\ KeyOf(c.user) \in Replies
  <2> SUFFICES ASSUME Publish(c, call[c].replies), c.kind # "claim_oidc",
                      \A n \in SignNodes : Good(claims, creds, n, c, call[c].replies[n])
               PROVE  /\ recovery' = [recovery EXCEPT ![c.user] = recovery[c.user] \cup {KeyOf(c.user)}]
                      /\ \A n \in SignNodes : creds[n][c.user] # None
                      /\ KeyOf(c.user) \in Replies
    OBVIOUS
  <2>1. call[c].replies \in Replies
    BY <1>2 DEF CallStates
  <2>2. \A n \in SignNodes : call[c].replies[n] = creds[n][c.user] /\ creds[n][c.user] # None
    BY DEF Good
  <2>3. call[c].replies = KeyOf(c.user)
    BY <2>1, <2>2 DEF Replies, KeyOf
  <2> QED
    BY <2>1, <2>2, <2>3 DEF Publish
<1>6. recovery' \in [Users -> SUBSET Replies]
  BY <1>5, CallFacts DEF IInv, Types
<1>7. Types'
  BY <1>1, <1>3, <1>6 DEF IInv, Types, StoreTypes
<1>8. Handlers'
  BY <1>1, <1>4 DEF IInv, Types, TaskStates, Handlers
<1>9. Memory'
  BY <1>4 DEF IInv, Types, SigningStates, Memory
<1>10. Told'
  BY <1>3 DEF IInv, Told, Paths, Good
<1>11. Recovered'
  <2>1. CASE UNCHANGED recovery
    BY <2>1, UnchangedKept, RecoveredStays DEF IInv
  <2>2. CASE /\ recovery' = [recovery EXCEPT ![c.user] = recovery[c.user] \cup {KeyOf(c.user)}]
             /\ \A n \in SignNodes : creds[n][c.user] # None
    <3>1. recovery[c.user] = {} \/ recovery[c.user] = {KeyOf(c.user)}
      BY CallFacts DEF IInv, Recovered
    <3>2. recovery'[c.user] = {KeyOf(c.user)} /\ \A u \in Users : u # c.user => recovery'[u] = recovery[u]
      BY <2>2, <3>1, CallFacts DEF IInv, Types
    <3>3. \A u \in Users : KeyOf(u)' = KeyOf(u)
      BY DEF KeyOf
    <3> QED
      BY <2>2, <3>2, <3>3 DEF IInv, Recovered
  <2> QED
    BY <1>5, <2>1, <2>2
<1>12. Deletions'
  <2>1. \A u \in Users : recovery[u] \subseteq recovery'[u]
    BY <1>5, CallFacts DEF IInv, Types
  <2> QED
    BY <1>3, <2>1, CallFacts DEF IInv, Deletions
<1> QED
  BY <1>7, <1>8, <1>9, <1>10, <1>11, <1>12 DEF IInv

\* A reply to a round in flight is written down; all else stays.
LEMMA ReplyFacts ==
    ASSUME Types, NEW t \in tasks, NEW value \in Values, Reply(t, value)
    PROVE  /\ tasks' = tasks \ {t} /\ call' \in [Calls -> CallStates]
           /\ \A c \in Calls : /\ call'[c].stage = call[c].stage /\ call'[c].round = call[c].round
                               /\ call'[c].target = call[c].target
           /\ \A c \in Calls, n \in SignNodes :
                 \/ call'[c].replies[n] = call[c].replies[n]
                 \/ /\ c = t.call /\ n = t.node /\ call'[c].replies[n] = value
                    /\ call[c].stage \in Paths
<1>1. t.call \in Calls /\ t.node \in SignNodes /\ t.path \in Paths /\ call \in [Calls -> CallStates]
  BY DEF Types, TaskStates
<1>2. CASE call' = call
  BY <1>1, <1>2 DEF Reply
<1>3. CASE call' = [call EXCEPT ![t.call].replies[t.node] = value] /\ call[t.call].stage = t.path
  <2> DEFINE old == call[t.call]
             new == [old EXCEPT !.replies = [old.replies EXCEPT ![t.node] = value]]
  <2>1. old \in CallStates /\ old.replies \in [SignNodes -> Values]
    BY <1>1 DEF CallStates, Replies
  <2>2. /\ new \in CallStates /\ new.stage = old.stage /\ new.round = old.round
        /\ new.target = old.target /\ new.replies[t.node] = value
        /\ \A n \in SignNodes : n # t.node => new.replies[n] = old.replies[n]
    BY <1>1, <2>1 DEF CallStates, Replies
  <2>3. call' = [call EXCEPT ![t.call] = new]
    BY <1>3
  <2> HIDE DEF new
  <2>4. call' \in [Calls -> CallStates] /\ call'[t.call] = new
        /\ \A c \in Calls : c # t.call => call'[c] = call[c]
    BY <1>1, <2>2, <2>3
  <2> QED
    BY <1>1, <1>3, <2>2, <2>4 DEF Reply
<1> QED
  BY <1>2, <1>3 DEF Reply

\* A handler replies with an error or with a good answer, having added to the
\* Datastore at most.
LEMMA ReplyKeeps ==
    ASSUME IInv, NEW t \in tasks, NEW value \in Values, Reply(t, value),
           value = Failed \/ Good(claims', creds', t.node, t.call, value),
           Kept, StoreTypes', UNCHANGED recovery,
           committed' \in [SignNodes -> SUBSET SigningStates],
           revealed' \in [SignNodes -> SUBSET SigningStates],
           \A n \in SignNodes : \A s \in committed'[n] \cup revealed'[n] :
               \/ s \in committed[n] \cup revealed[n]
               \/ /\ s.call = t.call /\ s.round = t.round /\ t.call.action = "other"
                  /\ Good(claims', creds', n, s.call, s.cred)
    PROVE  IInv'
<1>1. /\ tasks' = tasks \ {t} /\ call' \in [Calls -> CallStates]
      /\ \A c \in Calls : /\ call'[c].stage = call[c].stage /\ call'[c].round = call[c].round
                          /\ call'[c].target = call[c].target
      /\ \A c \in Calls, n \in SignNodes :
            \/ call'[c].replies[n] = call[c].replies[n]
            \/ /\ c = t.call /\ n = t.node /\ call'[c].replies[n] = value
               /\ call[c].stage \in Paths
  BY ReplyFacts DEF IInv
<1>2. \A u \in tasks : u.call \in Calls /\ u.node \in SignNodes
  BY DEF IInv, Types, TaskStates
<1>3. Types'
  BY <1>1 DEF IInv, Types
<1>4. Handlers'
  BY <1>1, <1>2, CallFacts DEF IInv, Handlers, Kept
<1>5. Memory'
  <2> SUFFICES ASSUME NEW n \in SignNodes, NEW s \in committed'[n] \cup revealed'[n]
               PROVE  /\ Good(claims', creds', n, s.call, s.cred)
                      /\ s.round <= call'[s.call].round /\ s.call.action = "other"
    BY DEF Memory
  <2>1. CASE s \in committed[n] \cup revealed[n]
    <3>1. s.call \in Calls
      BY <2>1 DEF IInv, Types, SigningStates
    <3>2. Good(claims, creds, n, s.call, s.cred) /\ s.round <= call[s.call].round /\ s.call.action = "other"
      BY <2>1 DEF IInv, Memory
    <3> QED
      BY <1>1, <3>1, <3>2, GoodStays
  <2>2. CASE s \notin committed[n] \cup revealed[n]
    BY <1>1, <1>2, <2>2 DEF IInv, Handlers
  <2> QED
    BY <2>1, <2>2
<1>6. Told'
  <2>1. ASSUME NEW c \in Calls, call[c].stage \in Paths, NEW n \in SignNodes
        PROVE  call'[c].replies[n] \in {Waiting, Failed} \/ Good(claims', creds', n, c, call'[c].replies[n])
    BY <1>1, <2>1, GoodStays DEF IInv, Told
  <2>2. ASSUME NEW c \in Calls, call[c].stage = "relayer"
        PROVE  c.kind = "new_account" /\ \A n \in SignNodes : Good(claims', creds', n, c, call'[c].replies[n])
    <3>1. \A n \in SignNodes : call'[c].replies[n] = call[c].replies[n]
      BY <1>1, <2>2 DEF Paths
    <3> QED
      BY <2>2, <3>1, GoodStays DEF IInv, Told
  <2>3. ASSUME NEW c \in Calls, call[c].stage = "ok", NEW n \in SignNodes
        PROVE  claims'[n][c.token] = c.key
    BY <2>3, CallFacts DEF IInv, Told, Kept
  <2> QED
    BY <1>1, <2>1, <2>2, <2>3 DEF Told
<1>7. Recovered'
  BY RecoveredStays DEF IInv
<1>8. Deletions'
  BY <1>1 DEF IInv, Deletions
<1> QED
  BY <1>3, <1>4, <1>5, <1>6, <1>7, <1>8 DEF IInv

\* A handler goes on, past the claim only if the key has claimed the token.
LEMMA GotoKeeps ==
    ASSUME IInv, NEW t \in tasks, NEW pc \in {"insert_claim", "read_creds", "insert_creds"},
           Goto(t, pc),
           UNCHANGED <<claims, creds, stored, ready, committed, revealed, recovery, faults>>,
           pc = "insert_claim" => t.call.kind = "claim_oidc",
           pc # "insert_claim" =>
               t.call.kind # "claim_oidc" /\ claims[t.node][t.call.token] = t.call.key
    PROVE  IInv'
<1> DEFINE new == [t EXCEPT !.pc = pc]
<1>1. call' = call /\ tasks' = (tasks \ {t}) \cup {new}
  BY DEF Goto
<1>2. t \in TaskStates
  BY DEF IInv, Types
<1>3. /\ new \in TaskStates /\ new.call = t.call /\ new.round = t.round /\ new.node = t.node
      /\ new.path = t.path /\ new.pc = pc
  BY <1>2 DEF TaskStates
<1> HIDE DEF new
<1>4. Types'
  BY <1>1, <1>3 DEF IInv, Types, StoreTypes
<1>5. Handlers'
  BY <1>1, <1>3 DEF IInv, Handlers
<1>6. Memory' /\ Told'
  BY <1>1 DEF IInv, Memory, Told
<1>7. Recovered'
  BY UnchangedKept, RecoveredStays DEF IInv
<1>8. Deletions'
  BY <1>1 DEF IInv, Deletions
<1> QED
  BY <1>4, <1>5, <1>6, <1>7, <1>8 DEF IInv

\* An error is replied; the node's memory is as it was.
LEMMA FailedKeeps ==
    ASSUME IInv, NEW t \in tasks, Reply(t, Failed), Kept, StoreTypes',
           UNCHANGED <<committed, revealed, recovery>>
    PROVE  IInv'
<1>1. /\ committed' \in [SignNodes -> SUBSET SigningStates]
      /\ revealed' \in [SignNodes -> SUBSET SigningStates]
  BY DEF IInv, Types
<1>2. Failed \in Values
  BY DEF Values
<1> QED
  BY <1>1, <1>2, ReplyKeeps

\* The end of public_key or commit with a good answer.
LEMMA AnswerKeeps ==
    ASSUME IInv, NEW t \in tasks, NEW cred \in Values, Answer(t, cred), Kept, StoreTypes',
           Good(claims', creds', t.node, t.call, cred), UNCHANGED <<revealed, recovery>>
    PROVE  IInv'
<1> DEFINE new == [call |-> t.call, round |-> t.round, cred |-> cred]
<1>1. t.call \in Calls /\ t.round \in Nat /\ t.node \in SignNodes
  BY DEF IInv, Types, TaskStates
<1>2. new \in SigningStates /\ new.call = t.call /\ new.round = t.round /\ new.cred = cred
  BY <1>1 DEF SigningStates
<1>3. Reply(t, cred) /\ committed' = IF t.path = "public_key" THEN committed
                                      ELSE [committed EXCEPT ![t.node] = committed[t.node] \cup {new}]
  BY DEF Answer
<1> HIDE DEF new
<1>4. /\ committed' \in [SignNodes -> SUBSET SigningStates]
      /\ revealed' \in [SignNodes -> SUBSET SigningStates]
  BY <1>1, <1>2, <1>3 DEF IInv, Types
<1>5. ASSUME NEW n \in SignNodes, NEW s \in committed'[n] \cup revealed'[n]
      PROVE  \/ s \in committed[n] \cup revealed[n]
             \/ s = new /\ n = t.node /\ t.path # "public_key"
  BY <1>1, <1>3 DEF IInv, Types
<1>6. t.path # "public_key" => t.call.action = "other"
  BY DEF IInv, Handlers
<1> QED
  BY <1>2, <1>3, <1>4, <1>5, <1>6, ReplyKeeps

-----------------------------------------------------------------------------
(* The handlers.                                                            *)

\* The insert of a claim where there is none.
LEMMA ClaimInserted ==
    ASSUME Types, NEW t \in tasks, claims[t.node][t.call.token] = None,
           claims' = [claims EXCEPT ![t.node][t.call.token] = t.call.key],
           UNCHANGED <<creds, stored, ready>>, faults' \in 0..MaxFaults
    PROVE  Kept /\ StoreTypes' /\ claims'[t.node][t.call.token] = t.call.key
<1>1. t.call \in Calls /\ t.node \in SignNodes
  BY DEF Types, TaskStates
<1>2. t.call.token \in Tokens /\ t.call.key \in Keys
  BY <1>1, CallFacts
<1>3. claims \in [SignNodes -> [Tokens -> Keys \cup {None}]]
  BY DEF Types, StoreTypes
<1>4. /\ claims' \in [SignNodes -> [Tokens -> Keys \cup {None}]]
      /\ claims'[t.node][t.call.token] = t.call.key
      /\ \A n \in SignNodes, k \in Tokens : claims[n][k] # None => claims'[n][k] = claims[n][k]
  BY <1>1, <1>2, <1>3
<1> QED
  BY <1>4 DEF Types, StoreTypes, Kept

\* The insert of a credential where there is none.
LEMMA CredsInserted ==
    ASSUME Types, NEW t \in tasks, creds[t.node][t.call.user] = None,
           creds' = [creds EXCEPT ![t.node][t.call.user] = Fresh(t)],
           UNCHANGED <<claims, stored, ready>>, faults' \in 0..MaxFaults
    PROVE  /\ Kept /\ StoreTypes' /\ creds'[t.node][t.call.user] = Fresh(t)
           /\ Fresh(t) \in Values /\ Fresh(t) # None
<1>1. t.call \in Calls /\ t.node \in SignNodes /\ t.round \in Nat
  BY DEF Types, TaskStates
<1>2. t.call.user \in Users /\ Fresh(t) \in Nat \X Nat
  BY <1>1, CallFacts DEF Fresh
<1>3. creds \in [SignNodes -> [Users -> (Nat \X Nat) \cup {None}]]
  BY DEF Types, StoreTypes
<1>4. /\ creds' \in [SignNodes -> [Users -> (Nat \X Nat) \cup {None}]]
      /\ creds'[t.node][t.call.user] = Fresh(t)
      /\ \A n \in SignNodes, u \in Users : creds[n][u] # None => creds'[n][u] = creds[n][u]
  <2> DEFINE f == Fresh(t)
  <2>1. f \in (Nat \X Nat) \cup {None} /\ creds' = [creds EXCEPT ![t.node][t.call.user] = f]
    BY <1>2
  <2> HIDE DEF f
  <2>2. /\ creds' \in [SignNodes -> [Users -> (Nat \X Nat) \cup {None}]]
        /\ creds'[t.node][t.call.user] = f
        /\ \A n \in SignNodes, u \in Users : creds[n][u] # None => creds'[n][u] = creds[n][u]
    BY <1>1, <1>2, <1>3, <2>1
  <2> QED
    BY <2>2 DEF f
<1>5. Fresh(t) \in Values /\ Fresh(t) # None
  BY <1>2, RecoveryAssumption DEF Values
<1> QED
  BY <1>4, <1>5 DEF Types, StoreTypes, Kept

\* The claim is looked up.
LEMMA ReadClaimStep ==
    ASSUME IInv, NEW t \in tasks, ReadClaim(t),
           UNCHANGED <<revealed, stored, ready, recovery, faults>>
    PROVE  IInv'
<1>1. t.call \in Calls /\ t.node \in SignNodes /\ t.pc = "start"
  BY DEF IInv, Types, TaskStates, ReadClaim
<1>2. UNCHANGED <<claims, creds>>
  BY DEF ReadClaim, Refuse
<1>3. Kept /\ StoreTypes'
  BY <1>2, UnchangedKept DEF IInv, Types, StoreTypes
<1>4. CASE Refuse(t)
  BY <1>3, <1>4, FailedKeeps DEF Refuse
<1>5. CASE Goto(t, "insert_claim") /\ t.call.kind = "claim_oidc" /\ UNCHANGED committed
  BY <1>2, <1>5, GotoKeeps
<1>6. CASE /\ Answer(t, NodeKey) /\ t.call.kind = "claim_oidc"
           /\ claims[t.node][t.call.token] = t.call.key
  <2>1. Good(claims', creds', t.node, t.call, NodeKey) /\ NodeKey \in Values
    BY <1>2, <1>6 DEF Good, Values
  <2> QED
    BY <1>3, <1>6, <2>1, AnswerKeeps
<1>7. CASE /\ Goto(t, "read_creds") /\ t.call.kind # "claim_oidc" /\ UNCHANGED committed
           /\ claims[t.node][t.call.token] = t.call.key
  BY <1>2, <1>7, GotoKeeps
<1> QED
  BY <1>4, <1>5, <1>6, <1>7 DEF ReadClaim

\* The claim is inserted; who comes second is refused.
LEMMA InsertClaimStep ==
    ASSUME IInv, NEW t \in tasks, InsertClaim(t),
           UNCHANGED <<revealed, stored, ready, recovery, faults>>
    PROVE  IInv'
<1>1. t.call.kind = "claim_oidc" /\ faults' \in 0..MaxFaults
  BY DEF IInv, Types, StoreTypes, Handlers, InsertClaim
<1>2. CASE /\ claims[t.node][t.call.token] = None
           /\ claims' = [claims EXCEPT ![t.node][t.call.token] = t.call.key]
           /\ Answer(t, NodeKey) /\ UNCHANGED creds
  <2>1. Kept /\ StoreTypes' /\ claims'[t.node][t.call.token] = t.call.key
    BY <1>1, <1>2, ClaimInserted DEF IInv
  <2>2. Good(claims', creds', t.node, t.call, NodeKey) /\ NodeKey \in Values
    BY <1>1, <2>1 DEF Good, Values
  <2> QED
    BY <1>2, <2>1, <2>2, AnswerKeeps
<1>3. CASE Refuse(t)
  <2>1. Kept /\ StoreTypes'
    BY <1>3, UnchangedKept DEF Refuse, IInv, Types, StoreTypes
  <2> QED
    BY <1>3, <2>1, FailedKeeps DEF Refuse
<1> QED
  BY <1>2, <1>3 DEF InsertClaim

\* The credential is looked up.
LEMMA ReadCredsStep ==
    ASSUME IInv, NEW t \in tasks, ReadCreds(t),
           UNCHANGED <<revealed, stored, ready, recovery, faults>>
    PROVE  IInv'
<1> DEFINE found == creds[t.node][t.call.user]
<1>1. /\ t.pc = "read_creds" /\ UNCHANGED <<claims, creds>>
      /\ t.call.kind # "claim_oidc" /\ claims[t.node][t.call.token] = t.call.key
  BY DEF ReadCreds, IInv, Handlers
<1>2. Kept /\ StoreTypes'
  BY <1>1, UnchangedKept DEF IInv, Types, StoreTypes
<1>3. CASE found # None /\ Answer(t, found)
  <2>1. found \in Values
    <3>1. t.call \in Calls /\ t.node \in SignNodes
      BY DEF IInv, Types, TaskStates
    <3> QED
      BY <3>1, CallFacts DEF IInv, Types, StoreTypes, Values
  <2>2. Good(claims', creds', t.node, t.call, found)
    BY <1>1, <1>3 DEF Good
  <2> HIDE DEF found
  <2> QED
    BY <1>2, <1>3, <2>1, <2>2, AnswerKeeps
<1>4. CASE Goto(t, "insert_creds") /\ UNCHANGED committed
  BY <1>1, <1>4, GotoKeeps
<1> QED
  BY <1>3, <1>4 DEF ReadCreds

\* The credential is inserted; who comes second is refused.
LEMMA InsertCredsStep ==
    ASSUME IInv, NEW t \in tasks, InsertCreds(t),
           UNCHANGED <<revealed, stored, ready, recovery, faults>>
    PROVE  IInv'
<1>1. /\ t.call.kind # "claim_oidc" /\ claims[t.node][t.call.token] = t.call.key
      /\ faults' \in 0..MaxFaults
  BY DEF IInv, Types, StoreTypes, Handlers, InsertCreds
<1>2. CASE /\ creds[t.node][t.call.user] = None
           /\ creds' = [creds EXCEPT ![t.node][t.call.user] = Fresh(t)]
           /\ Answer(t, Fresh(t)) /\ UNCHANGED claims
  <2>1. /\ Kept /\ StoreTypes' /\ creds'[t.node][t.call.user] = Fresh(t)
        /\ Fresh(t) \in Values /\ Fresh(t) # None
    BY <1>1, <1>2, CredsInserted DEF IInv
  <2>2. Good(claims', creds', t.node, t.call, Fresh(t))
    BY <1>1, <1>2, <2>1 DEF Good
  <2> QED
    BY <1>2, <2>1, <2>2, AnswerKeeps
<1>3. CASE Refuse(t)
  <2>1. Kept /\ StoreTypes'
    BY <1>3, UnchangedKept DEF Refuse, IInv, Types, StoreTypes
  <2> QED
    BY <1>3, <2>1, FailedKeeps DEF Refuse
<1> QED
  BY <1>2, <1>3 DEF InsertCreds

\* reveal and signature_share answer with what the node committed to.
LEMMA SharesStep ==
    ASSUME IInv, NEW t \in tasks, GetReveal(t) \/ GetSignatureShare(t),
           UNCHANGED <<claims, creds, stored, ready, recovery, faults>>
    PROVE  IInv'
<1>1. Kept /\ StoreTypes'
  BY UnchangedKept DEF IInv, Types, StoreTypes
<1>2. /\ t.call \in Calls /\ t.node \in SignNodes /\ t.round \in Nat
      /\ committed \in [SignNodes -> SUBSET SigningStates]
      /\ revealed \in [SignNodes -> SUBSET SigningStates]
  BY DEF IInv, Types, TaskStates
<1>3. CASE Reply(t, Failed) /\ UNCHANGED <<committed, revealed>>
  BY <1>1, <1>3, FailedKeeps
<1>4. ASSUME NEW s \in committed[t.node], s.call = t.call, Reply(t, s.cred),
             committed' = [committed EXCEPT ![t.node] = @ \ {s}],
             revealed' = [revealed EXCEPT ![t.node] = @ \cup {[s EXCEPT !.round = t.round]}]
      PROVE  IInv'
  <2> DEFINE new == [s EXCEPT !.round = t.round]
  <2>1. s \in SigningStates
    BY <1>2, <1>4
  <2>2. /\ new \in SigningStates /\ new.call = t.call /\ new.round = t.round /\ new.cred = s.cred
        /\ s.cred \in Values
    BY <1>2, <1>4, <2>1 DEF SigningStates
  <2>3. Good(claims', creds', t.node, t.call, s.cred) /\ t.call.action = "other"
    BY <1>2, <1>4 DEF IInv, Memory
  <2>4. revealed' = [revealed EXCEPT ![t.node] = @ \cup {new}]
    BY <1>4
  <2> HIDE DEF new
  <2>5. /\ committed' \in [SignNodes -> SUBSET SigningStates]
        /\ revealed' \in [SignNodes -> SUBSET SigningStates]
    BY <1>2, <1>4, <2>2, <2>4
  <2>6. \A n \in SignNodes : \A r \in committed'[n] \cup revealed'[n] :
            r \in committed[n] \cup revealed[n] \/ (r = new /\ n = t.node)
    BY <1>2, <1>4, <2>4
  <2> QED
    BY <1>1, <1>4, <2>2, <2>3, <2>5, <2>6, ReplyKeeps
<1>5. ASSUME NEW s \in revealed[t.node], s.call = t.call, Reply(t, s.cred),
             UNCHANGED committed, revealed' = [revealed EXCEPT ![t.node] = @ \ {s}]
      PROVE  IInv'
  <2>1. s.cred \in Values
    BY <1>2, <1>5 DEF SigningStates
  <2>2. Good(claims', creds', t.node, t.call, s.cred)
    BY <1>2, <1>5 DEF IInv, Memory
  <2>3. /\ committed' \in [SignNodes -> SUBSET SigningStates]
        /\ revealed' \in [SignNodes -> SUBSET SigningStates]
    BY <1>2, <1>5
  <2>4. \A n \in SignNodes : \A r \in committed'[n] \cup revealed'[n] :
            r \in committed[n] \cup revealed[n]
    BY <1>2, <1>5
  <2> QED
    BY <1>1, <1>5, <2>1, <2>2, <2>3, <2>4, ReplyKeeps
<1> QED
  BY <1>3, <1>4, <1>5 DEF GetReveal, GetSignatureShare

\* A handler's step.
LEMMA HandleStep ==
    ASSUME IInv, NEW t \in tasks, Handle(t)
    PROVE  IInv'
<1>1. UNCHANGED <<stored, ready, recovery, faults>>
  BY DEF Handle, leaderVars
<1>2. CASE /\ ReadClaim(t) \/ InsertClaim(t) \/ ReadCreds(t) \/ InsertCreds(t)
           /\ UNCHANGED revealed
  BY <1>1, <1>2, ReadClaimStep, InsertClaimStep, ReadCredsStep, InsertCredsStep
<1>3. CASE (GetReveal(t) \/ GetSignatureShare(t)) /\ UNCHANGED <<claims, creds>>
  BY <1>1, <1>3, SharesStep
<1> QED
  BY <1>2, <1>3 DEF Handle

\* The Datastore fails: the insert is done or not, the reply is an error.
LEMMA StoreFailsStep ==
    ASSUME IInv, NEW t \in tasks, StoreFails(t)
    PROVE  IInv'
<1>1. /\ Reply(t, Failed) /\ UNCHANGED <<stored, ready, committed, revealed, recovery>>
      /\ faults' \in 0..MaxFaults
  BY RecoveryAssumption DEF StoreFails, memVars, leaderVars, IInv, Types, StoreTypes
<1>2. Kept /\ StoreTypes'
  <2>1. CASE UNCHANGED <<claims, creds>>
    BY <1>1, <2>1, UnchangedKept DEF IInv, Types, StoreTypes
  <2>2. CASE /\ claims[t.node][t.call.token] = None
             /\ claims' = [claims EXCEPT ![t.node][t.call.token] = t.call.key]
             /\ UNCHANGED creds
    BY <1>1, <2>2, ClaimInserted DEF IInv
  <2>3. CASE /\ creds[t.node][t.call.user] = None
             /\ creds' = [creds EXCEPT ![t.node][t.call.user] = Fresh(t)]
             /\ UNCHANGED claims
    BY <1>1, <2>3, CredsInserted DEF IInv
  <2> QED
    BY <2>1, <2>2, <2>3 DEF StoreFails
<1> QED
  BY <1>1, <1>2, FailedKeeps

-----------------------------------------------------------------------------
(* Faults, and the start of the leader.                                     *)

\* Handlers and states in memory may go, replies turn to errors and calls
\* fail: nothing that is left was not there before.
LEMMA LossKeeps ==
    ASSUME IInv, UNCHANGED <<claims, creds, recovery>>, StoreTypes', tasks' \subseteq tasks,
           committed' \in [SignNodes -> SUBSET SigningStates],
           revealed' \in [SignNodes -> SUBSET SigningStates],
           \A n \in SignNodes : committed'[n] \subseteq committed[n] /\ revealed'[n] \subseteq revealed[n],
           call' \in [Calls -> CallStates],
           \A c \in Calls :
               /\ call'[c].round = call[c].round /\ call'[c].target = call[c].target
               /\ call'[c].stage = call[c].stage \/ call'[c].stage = "failed"
               /\ \A n \in SignNodes :
                     \/ call'[c].replies[n] = call[c].replies[n]
                     \/ call'[c].replies[n] = Failed /\ call[c].stage \in Paths
    PROVE  IInv'
<1>1. Types'
  BY DEF IInv, Types
<1>2. \A t \in tasks : t.call \in Calls
  BY DEF IInv, Types, TaskStates
<1>3. Handlers'
  BY <1>2 DEF IInv, Handlers
<1>4. \A n \in SignNodes : \A s \in committed[n] \cup revealed[n] : s.call \in Calls
  BY DEF IInv, Types, SigningStates
<1>5. Memory'
  BY <1>4 DEF IInv, Memory
<1>6. Told'
  BY DEF IInv, Told, Paths
<1>7. Recovered'
  BY UnchangedKept, RecoveredStays DEF IInv
<1>8. Deletions'
  BY DEF IInv, Deletions
<1> QED
  BY <1>1, <1>3, <1>5, <1>6, <1>7, <1>8 DEF IInv

\* The leader loses a connection.
LEMMA DisconnectStep ==
    ASSUME IInv, NEW t \in tasks, Disconnect(t)
    PROVE  IInv'
<1>1. /\ t.call \in Calls /\ t.node \in SignNodes /\ t.path \in Paths
      /\ call \in [Calls -> CallStates] /\ call[t.call].stage = t.path
      /\ call' = [call EXCEPT ![t.call].replies[t.node] = Failed]
      /\ tasks' \subseteq tasks
      /\ UNCHANGED <<claims, creds, stored, ready, committed, revealed, recovery>>
  BY DEF IInv, Types, TaskStates, Disconnect, dbVars, memVars, leaderVars
<1>2. StoreTypes'
  BY <1>1, RecoveryAssumption DEF Disconnect, IInv, Types, StoreTypes
<1> DEFINE old == call[t.call]
           new == [old EXCEPT !.replies = [old.replies EXCEPT ![t.node] = Failed]]
<1>3. old \in CallStates /\ old.replies \in [SignNodes -> Values] /\ Failed \in Values
  BY <1>1 DEF CallStates, Replies, Values
<1>4. /\ new \in CallStates /\ new.stage = old.stage /\ new.round = old.round
      /\ new.target = old.target /\ new.replies[t.node] = Failed
      /\ \A n \in SignNodes : n # t.node => new.replies[n] = old.replies[n]
  BY <1>1, <1>3 DEF CallStates, Replies
<1>5. call' = [call EXCEPT ![t.call] = new]
  BY <1>1
<1> HIDE DEF new
<1>6. /\ call' \in [Calls -> CallStates] /\ call'[t.call] = new
      /\ \A c \in Calls : c # t.call => call'[c] = call[c]
  BY <1>1, <1>4, <1>5
<1>7. \A c \in Calls :
          /\ call'[c].round = call[c].round /\ call'[c].target = call[c].target
          /\ call'[c].stage = call[c].stage
          /\ \A n \in SignNodes :
                \/ call'[c].replies[n] = call[c].replies[n]
                \/ call'[c].replies[n] = Failed /\ call[c].stage \in Paths
  BY <1>1, <1>4, <1>6
<1>8. /\ committed' \in [SignNodes -> SUBSET SigningStates]
      /\ revealed' \in [SignNodes -> SUBSET SigningStates]
      /\ \A n \in SignNodes : committed'[n] \subseteq committed[n] /\ revealed'[n] \subseteq revealed[n]
  BY <1>1 DEF IInv, Types
<1> QED
  BY <1>1, <1>2, <1>6, <1>7, <1>8, LossKeeps

\* A sign node restarts.
LEMMA RestartSignNodeStep ==
    ASSUME IInv, NEW n \in SignNodes, RestartSignNode(n)
    PROVE  IInv'
<1>1. /\ call \in [Calls -> CallStates] /\ tasks' \subseteq tasks
      /\ call' = [c \in Calls |->
              IF call[c].stage \in Paths /\ call[c].replies[n] = Waiting
              THEN [call[c] EXCEPT !.replies[n] = Failed] ELSE call[c]]
      /\ UNCHANGED <<claims, creds, stored, recovery>>
  BY DEF IInv, Types, RestartSignNode, dbVars, leaderVars
<1>2. StoreTypes'
  BY <1>1, RecoveryAssumption DEF RestartSignNode, IInv, Types, StoreTypes
<1>3. ASSUME NEW c \in Calls
      PROVE  /\ call'[c] \in CallStates
             /\ call'[c].round = call[c].round /\ call'[c].target = call[c].target
             /\ call'[c].stage = call[c].stage
             /\ \A m \in SignNodes :
                   \/ call'[c].replies[m] = call[c].replies[m]
                   \/ call'[c].replies[m] = Failed /\ call[c].stage \in Paths
  <2> DEFINE old == call[c]
             new == [old EXCEPT !.replies = [old.replies EXCEPT ![n] = Failed]]
  <2>1. old \in CallStates /\ old.replies \in [SignNodes -> Values] /\ Failed \in Values
    BY <1>1 DEF CallStates, Replies, Values
  <2>2. /\ new \in CallStates /\ new.stage = old.stage /\ new.round = old.round
        /\ new.target = old.target /\ new.replies[n] = Failed
        /\ \A m \in SignNodes : m # n => new.replies[m] = old.replies[m]
    BY <2>1 DEF CallStates, Replies
  <2>3. call'[c] = IF call[c].stage \in Paths /\ call[c].replies[n] = Waiting THEN new ELSE old
    BY <1>1
  <2> HIDE DEF new
  <2> QED
    BY <2>1, <2>2, <2>3
<1>4. call' \in [Calls -> CallStates]
  BY <1>1, <1>3
<1>5. /\ committed' \in [SignNodes -> SUBSET SigningStates]
      /\ revealed' \in [SignNodes -> SUBSET SigningStates]
      /\ \A m \in SignNodes : committed'[m] \subseteq committed[m] /\ revealed'[m] \subseteq revealed[m]
  BY DEF IInv, Types, RestartSignNode
<1> QED
  BY <1>1, <1>2, <1>3, <1>4, <1>5, LossKeeps

\* The leader restarts.
LEMMA RestartLeaderStep ==
    ASSUME IInv, RestartLeader
    PROVE  IInv'
<1>1. /\ call \in [Calls -> CallStates]
      /\ call' = [c \in Calls |->
              IF call[c].stage \in {"absent", "idle", "ok", "failed"} THEN call[c]
              ELSE [call[c] EXCEPT !.stage = "failed"]]
      /\ UNCHANGED <<claims, creds, stored, ready, committed, revealed, tasks, recovery>>
  BY DEF IInv, Types, RestartLeader, dbVars, memVars
<1>2. StoreTypes'
  BY <1>1, RecoveryAssumption DEF RestartLeader, IInv, Types, StoreTypes
<1>3. ASSUME NEW c \in Calls
      PROVE  /\ call'[c] \in CallStates
             /\ call'[c].round = call[c].round /\ call'[c].target = call[c].target
             /\ call'[c].stage = call[c].stage \/ call'[c].stage = "failed"
             /\ call'[c].replies = call[c].replies
  BY <1>1 DEF CallStates, Stages
<1>4. call' \in [Calls -> CallStates]
  BY <1>1, <1>3
<1>5. /\ committed' \in [SignNodes -> SUBSET SigningStates]
      /\ revealed' \in [SignNodes -> SUBSET SigningStates]
      /\ \A n \in SignNodes : committed'[n] \subseteq committed[n] /\ revealed'[n] \subseteq revealed[n]
  BY <1>1 DEF IInv, Types
<1> QED
  BY <1>1, <1>2, <1>3, <1>4, <1>5, LossKeeps

\* The set of node keys is broadcast, and the leader serves.
LEMMA BroadcastStep ==
    ASSUME IInv, Serve \/ \E n \in SignNodes : AcceptPkSet(n) \/ BroadcastLost(n)
    PROVE  IInv'
<1>1. UNCHANGED <<claims, creds, committed, revealed, tasks, call, recovery>>
  BY DEF Serve, AcceptPkSet, BroadcastLost, dbVars, memVars
<1>2. StoreTypes'
  <2>1. CASE Serve
    BY <2>1 DEF Serve, dbVars, memVars, IInv, Types, StoreTypes
  <2>2. ASSUME NEW n \in SignNodes, AcceptPkSet(n) PROVE StoreTypes'
    <3>1. stored' \in [SignNodes -> BOOLEAN] /\ ready' \in [SignNodes -> BOOLEAN]
      BY <2>2 DEF AcceptPkSet, IInv, Types, StoreTypes
    <3>2. faults' \in 0..MaxFaults
      BY <2>2, RecoveryAssumption DEF AcceptPkSet, IInv, Types, StoreTypes
    <3> QED
      BY <1>1, <3>1, <3>2 DEF IInv, Types, StoreTypes
  <2>3. ASSUME NEW n \in SignNodes, BroadcastLost(n) PROVE StoreTypes'
    <3>1. stored' \in [SignNodes -> BOOLEAN] /\ ready' \in [SignNodes -> BOOLEAN]
      BY <2>3 DEF BroadcastLost, IInv, Types, StoreTypes
    <3>2. faults' \in 0..MaxFaults
      BY <2>3, RecoveryAssumption DEF BroadcastLost, IInv, Types, StoreTypes
    <3> QED
      BY <1>1, <3>1, <3>2 DEF IInv, Types, StoreTypes
  <2> QED
    BY <2>1, <2>2, <2>3
<1>3. /\ committed' \in [SignNodes -> SUBSET SigningStates]
      /\ revealed' \in [SignNodes -> SUBSET SigningStates]
      /\ call' \in [Calls -> CallStates]
  BY <1>1 DEF IInv, Types
<1> QED
  BY <1>1, <1>2, <1>3, LossKeeps

-----------------------------------------------------------------------------
(* The leader's steps.                                                      *)

\* A client calls.
LEMMA StartStep ==
    ASSUME IInv, NEW c \in Calls, Start(c)
    PROVE  IInv'
<1>1. PICK target \in IF c.action = "delete_recovery_key" THEN recovery[c.user] ELSE {None} :
        Post(c, IF c.kind = "claim_oidc" THEN "commit" ELSE "public_key", 0, target)
  BY DEF Start
<1>2. UNCHANGED <<claims, creds, stored, ready, committed, revealed, recovery, faults>>
  BY DEF Start, dbVars, memVars, leaderVars
<1>3. target \in Replies \cup {None} /\ (c.action = "delete_recovery_key" => target \in recovery[c.user])
  BY <1>1, CallFacts DEF IInv, Types
<1> DEFINE path == IF c.kind = "claim_oidc" THEN "commit" ELSE "public_key"
<1>4. path \in Paths /\ 0 \in 0..MaxRetries /\ (c.action # "other" => path = "public_key")
  BY CallFacts, RecoveryAssumption DEF Paths
<1>5. Post(c, path, 0, target)
  BY <1>1
<1> HIDE DEF path
<1> QED
  BY <1>2, <1>3, <1>4, <1>5, PostKeeps

\* A round failed: the operation starts over, or the call fails.
LEMMA RoundFailsStep ==
    ASSUME IInv, NEW c \in Calls, RoundFails(c)
    PROVE  IInv'
<1> DEFINE path == IF call[c].stage = "public_key" THEN "public_key" ELSE "commit"
<1>1. /\ UNCHANGED <<claims, creds, stored, ready, committed, revealed, recovery, faults>>
      /\ call[c].stage \in Paths /\ Retry(c, path)
  BY DEF RoundFails, AllReplied, dbVars, memVars, leaderVars
<1>2. call[c].tries \in 0..MaxRetries /\ call[c].target \in Replies \cup {None}
  BY DEF IInv, Types, CallStates
<1>3. /\ path \in Paths /\ (c.action # "other" => path = "public_key")
      /\ c.action = "delete_recovery_key" => call[c].target \in recovery[c.user]
  BY <1>1 DEF IInv, Deletions, Paths
<1> HIDE DEF path
<1>4. CASE Post(c, path, call[c].tries + 1, call[c].target) /\ call[c].tries < MaxRetries
  <2>1. call[c].tries + 1 \in 0..MaxRetries
    BY <1>2, <1>4, RecoveryAssumption
  <2> QED
    BY <1>1, <1>2, <1>3, <1>4, <2>1, PostKeeps
<1>5. CASE Move(c, "failed", call[c].tries)
  <2>1. faults' \in 0..MaxFaults
    BY <1>1 DEF IInv, Types, StoreTypes
  <2> QED
    BY <1>1, <1>2, <1>5, <2>1, MoveKeeps
<1> QED
  BY <1>1, <1>4, <1>5 DEF Retry

\* When no reply is missing or an error, all are good.
LEMMA AllGood ==
    ASSUME IInv, NEW c \in Calls, AllReplied(c), ~ RoundFailed(c)
    PROVE  call[c].stage \in Paths /\ \A n \in SignNodes : Good(claims, creds, n, c, call[c].replies[n])
  BY DEF IInv, Told, AllReplied, RoundFailed

\* The recovery key has been looked up.  A deletion goes no further: the key it
\* asks for is the one given out before, hence the one looked up.
LEMMA PublicKeyStep ==
    ASSUME IInv, NEW c \in Calls, PublicKeyRound(c)
    PROVE  IInv'
<1>1. /\ call[c].stage = "public_key"
      /\ \A n \in SignNodes : Good(claims, creds, n, c, call[c].replies[n])
      /\ UNCHANGED <<claims, creds, stored, ready, committed, revealed, faults>>
  BY AllGood DEF PublicKeyRound, dbVars, memVars
<1>2. /\ call[c].tries \in 0..MaxRetries /\ call[c].target \in Replies \cup {None}
      /\ call[c].replies \in Replies /\ faults' \in 0..MaxFaults /\ 0 \in 0..MaxRetries
  BY <1>1, RecoveryAssumption DEF IInv, Types, CallStates, StoreTypes
<1>3. CASE c.kind = "user_credentials" /\ Publish(c, call[c].replies) /\ Move(c, "ok", call[c].tries)
  BY <1>1, <1>2, <1>3, CallFacts, MoveKeeps
<1>4. CASE c.kind = "new_account" /\ Move(c, "relayer", 0) /\ UNCHANGED recovery
  BY <1>1, <1>2, <1>4, CallFacts, MoveKeeps
<1>5. CASE Move(c, "failed", call[c].tries) /\ UNCHANGED recovery
  BY <1>1, <1>2, <1>5, MoveKeeps
<1>6. CASE /\ c.kind = "sign" /\ ~ Refused(c, call[c].replies)
           /\ Post(c, "commit", 0, call[c].target) /\ UNCHANGED recovery
  <2>1. c.action = "other"
    <3>1. CASE c.action = "delete_recovery_key"
      <4>1. call[c].target \in recovery[c.user] /\ c.user \in Users
        BY <1>1, <3>1, CallFacts DEF IInv, Deletions
      <4>2. call[c].target = KeyOf(c.user)
        BY <4>1 DEF IInv, Recovered
      <4>3. call[c].replies = KeyOf(c.user)
        BY <1>1, <1>2, <1>6 DEF Good, KeyOf, Replies
      <4> QED
        BY <1>6, <3>1, <4>2, <4>3 DEF Refused
    <3> QED
      BY <1>6, <3>1, CallFacts DEF Refused
  <2>2. "commit" \in Paths
    BY DEF Paths
  <2> QED
    BY <1>1, <1>2, <1>6, <2>1, <2>2, PostKeeps
<1> QED
  BY <1>3, <1>4, <1>5, <1>6 DEF PublicKeyRound

\* The three rounds of a signature.
LEMMA SigningStep ==
    ASSUME IInv, NEW c \in Calls, SigningRound(c)
    PROVE  IInv'
<1>1. /\ call[c].stage \in {"commit", "reveal", "signature_share"}
      /\ \A n \in SignNodes : Good(claims, creds, n, c, call[c].replies[n])
      /\ UNCHANGED <<claims, creds, stored, ready, committed, revealed, faults>>
  BY AllGood DEF SigningRound, dbVars, memVars
<1>2. /\ call[c].tries \in 0..MaxRetries /\ call[c].target \in Replies \cup {None}
      /\ faults' \in 0..MaxFaults
  BY <1>1 DEF IInv, Types, CallStates, StoreTypes
<1>3. c.action = "other"
  BY <1>1 DEF IInv, Deletions
<1>4. ASSUME NEW path \in {"reveal", "signature_share"},
             Post(c, path, call[c].tries, call[c].target), UNCHANGED recovery
      PROVE  IInv'
  <2>1. path \in Paths
    BY <1>4 DEF Paths
  <2> QED
    BY <1>1, <1>2, <1>3, <1>4, <2>1, PostKeeps
<1>5. CASE /\ Move(c, "ok", call[c].tries)
           /\ IF c.kind = "sign" THEN Publish(c, call[c].replies) ELSE UNCHANGED recovery
  BY <1>1, <1>2, <1>3, <1>5, MoveKeeps
<1> QED
  BY <1>4, <1>5 DEF SigningRound

\* The relayer has registered the key, or not.
LEMMA RelayerStep ==
    ASSUME IInv, NEW c \in Calls, Relayer(c)
    PROVE  IInv'
<1>1. /\ c.kind = "new_account" /\ c.action = "other"
      /\ \A n \in SignNodes : Good(claims, creds, n, c, call[c].replies[n])
      /\ UNCHANGED <<claims, creds, stored, ready, committed, revealed>>
  BY CallFacts DEF Relayer, IInv, Told, dbVars, memVars
<1>2. call[c].tries \in 0..MaxRetries
  BY DEF IInv, Types, CallStates
<1>3. faults' \in 0..MaxFaults
  BY RecoveryAssumption DEF Relayer, IInv, Types, StoreTypes
<1>4. Publish(c, call[c].replies) \/ UNCHANGED recovery
  BY DEF Relayer
<1>5. \/ Move(c, "ok", call[c].tries)
      \/ Move(c, "relayer", call[c].tries + 1) /\ call[c].tries < MaxRetries
      \/ Move(c, "failed", call[c].tries)
  BY DEF Relayer
<1>6. call[c].tries < MaxRetries => call[c].tries + 1 \in 0..MaxRetries
  BY <1>2, RecoveryAssumption
<1> QED
  BY <1>1, <1>2, <1>3, <1>4, <1>5, <1>6, MoveKeeps

-----------------------------------------------------------------------------
(* The invariant.                                                           *)

\* Init: nothing is running, no user has a credential.
LEMMA InitIInv == Init => IInv
<1> SUFFICES ASSUME Init PROVE IInv
  OBVIOUS
<1>1. PICK s \in Scenarios :
        /\ claims = [n \in SignNodes |-> s.claims]
        /\ call = [c \in Calls |->
               [stage |-> IF c \in s.calls THEN "idle" ELSE "absent", round |-> 0, tries |-> 0,
                target |-> None, replies |-> [n \in SignNodes |-> None]]]
  BY DEF Init
<1>2. s.claims \in [Tokens -> Keys \cup {None}] /\ 0 \in 0..MaxRetries /\ 0 \in 0..MaxFaults
  BY RecoveryAssumption
<1>3. /\ call \in [Calls -> CallStates]
      /\ \A c \in Calls : call[c].stage \in {"idle", "absent"}
  BY <1>1, <1>2 DEF CallStates, Stages, Replies, Values
<1>4. StoreTypes
  BY <1>1, <1>2 DEF Init, StoreTypes
<1>5. Types
  BY <1>3, <1>4 DEF Init, Types
<1>6. Handlers /\ Memory /\ Recovered
  BY DEF Init, Handlers, Memory, Recovered
<1>7. Told /\ Deletions
  BY <1>3 DEF Told, Deletions, Paths
<1> QED
  BY <1>5, <1>6, <1>7 DEF IInv

\* Every step, or none.
LEMMA NextIInv == IInv /\ [Next]_vars => IInv'
<1> SUFFICES ASSUME IInv, [Next]_vars PROVE IInv'
  OBVIOUS
<1>1. CASE UNCHANGED vars
  <2>1. /\ UNCHANGED <<claims, creds, recovery, tasks, committed, revealed, call>> /\ StoreTypes'
    BY <1>1 DEF vars, IInv, Types, StoreTypes
  <2>2. /\ committed' \in [SignNodes -> SUBSET SigningStates]
        /\ revealed' \in [SignNodes -> SUBSET SigningStates]
        /\ call' \in [Calls -> CallStates]
    BY <2>1 DEF IInv, Types
  <2> QED
    BY <2>1, <2>2, LossKeeps
<1>2. CASE Serve \/ \E n \in SignNodes : AcceptPkSet(n) \/ BroadcastLost(n)
  BY <1>2, BroadcastStep
<1>3. CASE RestartLeader \/ \E n \in SignNodes : RestartSignNode(n)
  BY <1>3, RestartLeaderStep, RestartSignNodeStep
<1>4. CASE \E c \in Calls : Start(c) \/ LeaderStep(c)
  BY <1>4, StartStep, RoundFailsStep, PublicKeyStep, SigningStep, RelayerStep DEF LeaderStep
<1>5. CASE \E t \in tasks : Handle(t) \/ StoreFails(t) \/ Disconnect(t)
  BY <1>5, HandleStep, StoreFailsStep, DisconnectStep
<1> QED
  BY <1>1, <1>2, <1>3, <1>4, <1>5 DEF Next

-----------------------------------------------------------------------------
(* What the invariant says.                                                 *)

\* The Datastores hold what they should, and handlers and states in memory
\* belong to rounds that the leader has posted, within its retries.
THEOREM RecoveryTypes == Spec => []TypeOK
<1>1. IInv => TypeOK
  <2> SUFFICES ASSUME IInv PROVE TypeOK
    OBVIOUS
  <2>1. \A n \in SignNodes, u \in Users : creds[n][u] # None => creds[n][u] \in Seq(Nat)
    <3>1. ASSUME NEW x \in Nat \X Nat PROVE x \in Seq(Nat)
      <4>1. PICK a \in Nat, b \in Nat : x = <<a, b>>
        OBVIOUS
      <4>2. <<a, b>> \in Seq(Nat)
        OBVIOUS
      <4> QED
        BY <4>1, <4>2
    <3> QED
      BY <3>1 DEF IInv, Types, StoreTypes
  <2>2. \A c \in Calls : StageOK(c)
    BY DEF IInv, Types, CallStates, Stages, StageOK
  <2>3. /\ \A t \in tasks : t.round <= call[t.call].round
        /\ \A n \in SignNodes : \A s \in committed[n] \cup revealed[n] : s.round <= call[s.call].round
    BY DEF IInv, Handlers, Memory
  <2> QED
    BY <2>1, <2>2, <2>3 DEF IInv, Types, StoreTypes, TypeOK
<1> QED
  BY <1>1, InitIInv, NextIInv, PTL DEF Spec

\* A user has one recovery key, ever, whichever handlers race to draw the
\* credentials it is made of and whatever fails in between.
THEOREM RecoveryKeyIsUnique == Spec => []OneRecoveryKey
<1>1. IInv => OneRecoveryKey
  <2> SUFFICES ASSUME IInv, NEW u \in Users PROVE Cardinality(recovery[u]) <= 1
    BY DEF OneRecoveryKey
  <2>1. recovery[u] = {} \/ recovery[u] = {KeyOf(u)}
    BY DEF IInv, Recovered
  <2>2. Cardinality({KeyOf(u)}) = 1
    BY FS_Singleton
  <2>3. recovery[u] = {} => Cardinality(recovery[u]) = 0
    BY FS_EmptySet
  <2> QED
    BY <2>1, <2>2, <2>3
<1> QED
  BY <1>1, InitIInv, NextIInv, PTL DEF Spec

\* Calls that succeeded on one token were made with one key.
THEOREM TokenIsClaimed == Spec => []TokenServesOneKey
<1>1. IInv => TokenServesOneKey
  BY RecoveryAssumption DEF IInv, Told, TokenServesOneKey
<1> QED
  BY <1>1, InitIInv, NextIInv, PTL DEF Spec

\* No sign node commits to the deletion of a recovery key that was given out,
\* or of an account.
THEOREM NoDeletionSigned == Spec => []RecoveryKeyStays
<1>1. IInv => RecoveryKeyStays
  BY DEF IInv, Memory, RecoveryKeyStays
<1> QED
  BY <1>1, InitIInv, NextIInv, PTL DEF Spec

\* A handler writes only where nothing was.
LEMMA StepKept ==
    ASSUME IInv, [Next]_vars
    PROVE  Kept
<1>1. CASE UNCHANGED <<claims, creds>>
  BY <1>1, UnchangedKept
<1>2. ASSUME NEW t \in tasks, claims[t.node][t.call.token] = None,
             claims' = [claims EXCEPT ![t.node][t.call.token] = t.call.key], UNCHANGED creds
      PROVE  Kept
  <2>1. t.call \in Calls /\ t.node \in SignNodes /\ claims \in [SignNodes -> [Tokens -> Keys \cup {None}]]
    BY DEF IInv, Types, TaskStates, StoreTypes
  <2>2. t.call.token \in Tokens
    BY <2>1, CallFacts
  <2> QED
    BY <1>2, <2>1, <2>2 DEF Kept
<1>3. ASSUME NEW t \in tasks, creds[t.node][t.call.user] = None,
             creds' = [creds EXCEPT ![t.node][t.call.user] = Fresh(t)], UNCHANGED claims
      PROVE  Kept
  <2>1. t.call \in Calls /\ t.node \in SignNodes
        /\ creds \in [SignNodes -> [Users -> (Nat \X Nat) \cup {None}]]
    BY DEF IInv, Types, TaskStates, StoreTypes
  <2>2. t.call.user \in Users
    BY <2>1, CallFacts
  <2> QED
    BY <1>3, <2>1, <2>2 DEF Kept
<1>4. ASSUME NEW t \in tasks, Handle(t)
      PROVE  \/ UNCHANGED <<claims, creds>>
             \/ /\ claims[t.node][t.call.token] = None /\ UNCHANGED creds
                /\ claims' = [claims EXCEPT ![t.node][t.call.token] = t.call.key]
             \/ /\ creds[t.node][t.call.user] = None /\ UNCHANGED claims
                /\ creds' = [creds EXCEPT ![t.node][t.call.user] = Fresh(t)]
  BY <1>4 DEF Handle, ReadClaim, InsertClaim, ReadCreds, InsertCreds, Refuse
<1>5. ASSUME NEW t \in tasks, StoreFails(t)
      PROVE  \/ UNCHANGED <<claims, creds>>
             \/ /\ claims[t.node][t.call.token] = None /\ UNCHANGED creds
                /\ claims' = [claims EXCEPT ![t.node][t.call.token] = t.call.key]
             \/ /\ creds[t.node][t.call.user] = None /\ UNCHANGED claims
                /\ creds' = [creds EXCEPT ![t.node][t.call.user] = Fresh(t)]
  BY <1>5 DEF StoreFails
<1>6. \/ UNCHANGED <<claims, creds>>
      \/ \E t \in tasks : Handle(t) \/ StoreFails(t)
  BY DEF Next, vars, AcceptPkSet, BroadcastLost, RestartSignNode, Serve, RestartLeader, Start,
         LeaderStep, RoundFails, PublicKeyRound, SigningRound, Relayer, Disconnect, dbVars
<1> QED
  BY <1>1, <1>2, <1>3, <1>4, <1>5, <1>6

\* A claim and a credential are never changed or taken back once a Datastore
\* holds them.
THEOREM StoreOnlyGrows == Spec => [][Kept]_vars
<1>1. IInv /\ [Next]_vars => [Kept]_vars
  BY StepKept
<1> QED
  BY <1>1, InitIInv, NextIInv, PTL DEF Spec

=============================================================================
