-------------------------- MODULE RecoveryService --------------------------
(***************************************************************************)
(* The account recovery service: a leader that serves clients' calls, the   *)
(* sign nodes it calls for them, and each sign node's Datastore.            *)
(*                                                                          *)
(* A call of a client is a chain of rounds.  In a round the leader posts    *)
(* one request to every sign node and waits for all replies; one error      *)
(* fails the round.  A sign node handles requests concurrently: a handler   *)
(* (a task) reads the Datastore in one step and writes it in a later one.   *)
(* A reply can be lost while its handler goes on, processes restart, and    *)
(* the Datastore can fail, with or without the write done.                  *)
(*                                                                          *)
(* Abstracted: requests that fail on their own (token, digest, partner,     *)
(* encoding) end before they change anything and are left out; a credential *)
(* is named by the handler that drew it; a recovery key is the credentials  *)
(* of all nodes it is aggregated from; the cryptography of a round is       *)
(* AggregateSigner's subject.                                               *)
(***************************************************************************)
EXTENDS Naturals, FiniteSets, Sequences

CONSTANTS SignNodes,
          Calls,       \* clients' calls: records, see CallType
          Users,       \* internal account ids
          Tokens,      \* OIDC tokens
          Keys,        \* clients' (FRP) keys
          Scenarios,   \* [calls, claims]: the calls that are made, and what every
                       \* Datastore holds at the start: token -> key or None
          MaxRetries,  \* retries of nar::retry (4 in the code)
          MaxFaults,   \* bound on losses, restarts and failures of the Datastore
          None, Waiting, Failed, NodeKey

\* user is get_internal_account_id of the token.  action says what the
\* delegate action of a sign call contains.
CallType == [id : Nat, kind : {"claim_oidc", "user_credentials", "new_account", "sign"},
             token : Tokens, user : Users, key : Keys,
             action : {"other", "delete_recovery_key", "delete_account"}]

ASSUME RecoveryAssumption ==
    /\ Calls \subseteq CallType
    /\ \A c, d \in Calls : c.id = d.id => c = d
    /\ \A c, d \in Calls : c.token = d.token => c.user = d.user
    /\ Scenarios \subseteq [calls : SUBSET Calls, claims : [Tokens -> Keys \cup {None}]]
    /\ \A c \in Calls : c.kind # "sign" => c.action = "other"
    /\ SignNodes # {} /\ None \notin Keys \cup (Nat \X Nat)
    /\ MaxRetries \in Nat /\ MaxFaults \in Nat

VARIABLES claims,      \* Datastore: node -> token -> key that claimed it, or None
          creds,       \* Datastore: node -> user -> credential, or None
          stored,      \* Datastore: node -> whether it has the set of node keys
          ready,       \* node -> whether nodes_public_keys is known in memory
          committed,   \* node -> committed states in memory
          revealed,    \* node -> revealed states in memory
          tasks,       \* running handlers
          accepted,    \* leader: the replies to accept_pk_set
          serving,     \* leader: the http server runs
          call,        \* leader: how far each call is
          recovery,    \* history: user -> recovery keys answered, registered, signed with
          faults

dbVars == <<claims, creds, stored>>
memVars == <<ready, committed, revealed>>
leaderVars == <<accepted, serving, recovery>>
vars == <<claims, creds, stored, ready, committed, revealed, tasks, accepted, serving,
          call, recovery, faults>>

Init ==
    /\ creds = [n \in SignNodes |-> [u \in Users |-> None]]
    /\ stored = [n \in SignNodes |-> FALSE]
    /\ ready = [n \in SignNodes |-> FALSE]
    /\ committed = [n \in SignNodes |-> {}]
    /\ revealed = [n \in SignNodes |-> {}]
    /\ tasks = {}
    /\ accepted = [n \in SignNodes |-> Waiting]
    /\ serving = FALSE
    /\ \E s \in Scenarios :
        /\ claims = [n \in SignNodes |-> s.claims]
        /\ call = [c \in Calls |->
               [stage |-> IF c \in s.calls THEN "idle" ELSE "absent", round |-> 0, tries |-> 0,
                target |-> None, replies |-> [n \in SignNodes |-> None]]]
    /\ recovery = [u \in Users |-> {}]
    /\ faults = 0

-----------------------------------------------------------------------------
(* The leader starts: it sends the set of node keys to every sign node.     *)

\* The reply to accept_pk_set when the set could not be saved: the status is
\* 500, but the body is Ok, which is what call_all_nodes looks at.
NotSavedReply == "ok"

\* The set goes to memory first, under a lock held until it is saved.  A node
\* that has it already says so, saved or not.
AcceptPkSet(n) ==
    /\ ~ serving /\ accepted[n] = Waiting
    /\ ready' = [ready EXCEPT ![n] = TRUE]
    /\ \/ /\ ready[n]
          /\ accepted' = [accepted EXCEPT ![n] = "ok"]
          /\ UNCHANGED <<stored, faults>>
       \/ /\ ~ ready[n] /\ ~ stored[n]
          /\ stored' = [stored EXCEPT ![n] = TRUE]
          /\ accepted' = [accepted EXCEPT ![n] = "ok"]
          /\ UNCHANGED faults
       \/ /\ ~ ready[n] /\ stored[n]               \* an insert of what exists fails
          /\ accepted' = [accepted EXCEPT ![n] = NotSavedReply]
          /\ UNCHANGED <<stored, faults>>
       \/ /\ ~ ready[n] /\ faults < MaxFaults
          /\ faults' = faults + 1
          /\ accepted' = [accepted EXCEPT ![n] = NotSavedReply]
          /\ stored' \in {stored, [stored EXCEPT ![n] = TRUE]}
    /\ UNCHANGED <<claims, creds, committed, revealed, tasks, serving, call, recovery>>

\* The request or its reply is lost, the latter after the node did its part.  A
\* handler that is dropped with its connection may stop between memory and
\* Datastore.
BroadcastLost(n) ==
    /\ ~ serving /\ accepted[n] = Waiting /\ faults < MaxFaults
    /\ faults' = faults + 1
    /\ accepted' = [accepted EXCEPT ![n] = Failed]
    /\ \/ UNCHANGED <<ready, stored>>
       \/ /\ ready' = [ready EXCEPT ![n] = TRUE]
          /\ stored' \in {stored, [stored EXCEPT ![n] = TRUE]}
    /\ UNCHANGED <<claims, creds, committed, revealed, tasks, serving, call, recovery>>

\* The leader serves calls whatever the broadcast came to.
Serve ==
    /\ ~ serving /\ \A n \in SignNodes : accepted[n] # Waiting
    /\ serving' = TRUE
    /\ UNCHANGED <<dbVars, memVars, tasks, accepted, call, recovery, faults>>

-----------------------------------------------------------------------------
(* Rounds.                                                                  *)

\* The stages in which sign nodes are called: the path of the request.
Paths == {"public_key", "commit", "reveal", "signature_share"}

\* call_all_nodes: one request to every sign node.
Post(c, path, tries, target) ==
    LET round == call[c].round + 1
    IN /\ call' = [call EXCEPT ![c] =
              [stage |-> path, round |-> round, tries |-> tries, target |-> target,
               replies |-> [n \in SignNodes |-> Waiting]]]
       /\ tasks' = tasks \cup
              {[call |-> c, round |-> round, node |-> n, path |-> path, pc |-> "start"] : n \in SignNodes}

\* The call goes on without calling sign nodes, or ends.
Move(c, stage, tries) ==
    /\ call' = [call EXCEPT ![c].stage = stage, ![c].tries = tries]
    /\ UNCHANGED tasks

\* A client calls.  It can only ask for the deletion of a recovery key that it
\* has learnt of.
Start(c) ==
    /\ serving /\ call[c].stage = "idle"
    /\ \E target \in IF c.action = "delete_recovery_key" THEN recovery[c.user] ELSE {None} :
           Post(c, IF c.kind = "claim_oidc" THEN "commit" ELSE "public_key", 0, target)
    /\ UNCHANGED <<dbVars, memVars, leaderVars, faults>>

\* Mutant: one retry too many.
RetryOnceMore(c, path) ==
    IF c.kind # "claim_oidc" /\ call[c].tries <= MaxRetries
    THEN Post(c, path, call[c].tries + 1, call[c].target)
    ELSE Move(c, "failed", call[c].tries)

\* Mutant: no retries.
RetryNever(c, path) == Move(c, "failed", call[c].tries)

\* nar::retry starts the failed operation over, at most MaxRetries times;
\* claim_oidc does not use it.
Retry(c, path) ==
    IF c.kind # "claim_oidc" /\ call[c].tries < MaxRetries
    THEN Post(c, path, call[c].tries + 1, call[c].target)
    ELSE Move(c, "failed", call[c].tries)

AllReplied(c) == call[c].stage \in Paths /\ \A n \in SignNodes : call[c].replies[n] # Waiting

RoundFailed(c) == \E n \in SignNodes : call[c].replies[n] = Failed

\* A signature is made of three rounds; a failure in any of them starts with
\* new commitments.
RoundFails(c) ==
    /\ AllReplied(c) /\ RoundFailed(c)
    /\ Retry(c, IF call[c].stage = "public_key" THEN "public_key" ELSE "commit")
    /\ UNCHANGED <<dbVars, memVars, leaderVars, faults>>

\* The key aggregated from the credentials of all nodes has been used.
Publish(c, key) == recovery' = [recovery EXCEPT ![c.user] = @ \cup {key}]

\* Mutant: deleting keys is not checked.
RefusedDeletesKeys(c, key) == c.action = "delete_account"

\* process_sign signs neither the deletion of the recovery key it just
\* looked up nor the deletion of an account.
Refused(c, key) ==
    \/ c.action = "delete_recovery_key" /\ call[c].target = key
    \/ c.action = "delete_account"

\* public_key answered by all: the recovery key is known.
PublicKeyRound(c) ==
    LET key == call[c].replies
    IN /\ AllReplied(c) /\ ~ RoundFailed(c) /\ call[c].stage = "public_key"
       /\ \/ /\ c.kind = "user_credentials"
             /\ Publish(c, key) /\ Move(c, "ok", call[c].tries)
          \/ /\ c.kind = "new_account"
             /\ Move(c, "relayer", 0) /\ UNCHANGED recovery
          \/ /\ c.kind = "sign" /\ Refused(c, key)
             /\ Move(c, "failed", call[c].tries) /\ UNCHANGED recovery
          \/ /\ c.kind = "sign" /\ ~ Refused(c, key)
             /\ Post(c, "commit", 0, call[c].target) /\ UNCHANGED recovery
       /\ UNCHANGED <<dbVars, memVars, accepted, serving, faults>>

\* commit, reveal and signature_share follow each other; the shares add up to
\* a signature of the keys the nodes committed with.
SigningRound(c) ==
    /\ AllReplied(c) /\ ~ RoundFailed(c)
    /\ \/ /\ call[c].stage = "commit"
          /\ Post(c, "reveal", call[c].tries, call[c].target) /\ UNCHANGED recovery
       \/ /\ call[c].stage = "reveal"
          /\ Post(c, "signature_share", call[c].tries, call[c].target) /\ UNCHANGED recovery
       \/ /\ call[c].stage = "signature_share"
          /\ Move(c, "ok", call[c].tries)
          /\ IF c.kind = "sign" THEN Publish(c, call[c].replies) ELSE UNCHANGED recovery
    /\ UNCHANGED <<dbVars, memVars, accepted, serving, faults>>

\* create_account_atomic: the relayer (external) creates the account with the
\* recovery key among its keys.  If it fails, it may have done so or not.
Relayer(c) ==
    /\ call[c].stage = "relayer"
    /\ \/ Publish(c, call[c].replies) /\ Move(c, "ok", call[c].tries) /\ UNCHANGED faults
       \/ /\ faults < MaxFaults /\ faults' = faults + 1
          /\ Publish(c, call[c].replies) \/ UNCHANGED recovery
          /\ IF call[c].tries < MaxRetries
             THEN Move(c, "relayer", call[c].tries + 1)
             ELSE Move(c, "failed", call[c].tries)
    /\ UNCHANGED <<dbVars, memVars, accepted, serving>>

-----------------------------------------------------------------------------
(* The handlers of the sign nodes.                                          *)

\* The handler is done.  The reply counts if the leader still waits for it.
Reply(t, value) ==
    /\ tasks' = tasks \ {t}
    /\ call' = IF /\ call[t.call].round = t.round
                  /\ call[t.call].stage = t.path
                  /\ call[t.call].replies[t.node] = Waiting
               THEN [call EXCEPT ![t.call].replies[t.node] = value]
               ELSE call

Goto(t, pc) == tasks' = (tasks \ {t}) \cup {[t EXCEPT !.pc = pc]} /\ UNCHANGED call

\* The end of commit (get_commitment) and of public_key, with the node's key
\* or the user's.
Answer(t, cred) ==
    /\ Reply(t, cred)
    /\ committed' = IF t.path = "public_key" THEN committed
                    ELSE [committed EXCEPT ![t.node] =
                             @ \cup {[call |-> t.call, round |-> t.round, cred |-> cred]}]

\* A reply that changes nothing at the node.
Refuse(t) == Reply(t, Failed) /\ UNCHANGED <<committed, claims, creds>>

\* Was the token claimed, and by this key?  commit needs the set of node keys
\* first (check_if_ready); public_key does not.
ReadClaim(t) ==
    LET claimed == claims[t.node][t.call.token]
        isReady == t.path = "public_key" \/ ready[t.node]
        isClaim == t.call.kind = "claim_oidc"
    IN /\ t.path \in {"public_key", "commit"} /\ t.pc = "start"
       /\ \/ /\ ~ isReady \/ claimed \notin {None, t.call.key}
             /\ Refuse(t)
          \/ /\ isReady /\ claimed = None /\ ~ isClaim
             /\ Refuse(t)
          \/ /\ isReady /\ claimed = None /\ isClaim
             /\ Goto(t, "insert_claim") /\ UNCHANGED <<committed, claims, creds>>
          \/ /\ isReady /\ claimed = t.call.key /\ isClaim
             /\ Answer(t, NodeKey) /\ UNCHANGED <<claims, creds>>
          \/ /\ isReady /\ claimed = t.call.key /\ ~ isClaim
             /\ Goto(t, "read_creds") /\ UNCHANGED <<committed, claims, creds>>

\* Mutant: upsert in place of insert.
UpsertClaim(t) ==
    /\ t.pc = "insert_claim"
    /\ claims' = [claims EXCEPT ![t.node][t.call.token] = t.call.key]
    /\ Answer(t, NodeKey) /\ UNCHANGED creds

\* The Datastore's insert fails if another handler has been faster.
InsertClaim(t) ==
    /\ t.pc = "insert_claim"
    /\ \/ /\ claims[t.node][t.call.token] = None
          /\ claims' = [claims EXCEPT ![t.node][t.call.token] = t.call.key]
          /\ Answer(t, NodeKey) /\ UNCHANGED creds
       \/ /\ claims[t.node][t.call.token] # None
          /\ Refuse(t)

\* get_or_generate_user_creds, the lookup.
ReadCreds(t) ==
    LET found == creds[t.node][t.call.user]
    IN /\ t.pc = "read_creds"
       /\ \/ found # None /\ Answer(t, found) /\ UNCHANGED <<claims, creds>>
          \/ found = None /\ Goto(t, "insert_creds") /\ UNCHANGED <<committed, claims, creds>>

\* The random credential a handler generates.
Fresh(t) == <<t.call.id, t.round>>

\* Mutant: upsert in place of insert.
UpsertCreds(t) ==
    /\ t.pc = "insert_creds"
    /\ creds' = [creds EXCEPT ![t.node][t.call.user] = Fresh(t)]
    /\ Answer(t, Fresh(t)) /\ UNCHANGED claims

\* get_or_generate_user_creds, the insert.
InsertCreds(t) ==
    /\ t.pc = "insert_creds"
    /\ \/ /\ creds[t.node][t.call.user] = None
          /\ creds' = [creds EXCEPT ![t.node][t.call.user] = Fresh(t)]
          /\ Answer(t, Fresh(t)) /\ UNCHANGED claims
       \/ /\ creds[t.node][t.call.user] # None
          /\ Refuse(t)

\* reveal: the commitment of the round before leaves its map.
GetReveal(t) ==
    LET mine == {s \in committed[t.node] : s.call = t.call /\ s.round = t.round - 1}
    IN /\ t.path = "reveal" /\ t.pc = "start"
       /\ \/ /\ ~ ready[t.node] \/ mine = {}
             /\ Reply(t, Failed) /\ UNCHANGED <<committed, revealed>>
          \/ /\ ready[t.node]
             /\ \E s \in mine :
                  /\ committed' = [committed EXCEPT ![t.node] = @ \ {s}]
                  /\ revealed' = [revealed EXCEPT ![t.node] = @ \cup {[s EXCEPT !.round = t.round]}]
                  /\ Reply(t, s.cred)

\* signature_share: the revealed state leaves its map.
GetSignatureShare(t) ==
    LET mine == {s \in revealed[t.node] : s.call = t.call /\ s.round = t.round - 1}
    IN /\ t.path = "signature_share" /\ t.pc = "start"
       /\ \/ /\ ~ ready[t.node] \/ mine = {}
             /\ Reply(t, Failed) /\ UNCHANGED revealed
          \/ /\ ready[t.node]
             /\ \E s \in mine :
                  /\ revealed' = [revealed EXCEPT ![t.node] = @ \ {s}]
                  /\ Reply(t, s.cred)
       /\ UNCHANGED committed

Handle(t) ==
    /\ \/ (ReadClaim(t) \/ InsertClaim(t) \/ ReadCreds(t) \/ InsertCreds(t)) /\ UNCHANGED revealed
       \/ (GetReveal(t) \/ GetSignatureShare(t)) /\ UNCHANGED <<claims, creds>>
    /\ UNCHANGED <<stored, ready, leaderVars, faults>>

-----------------------------------------------------------------------------
(* Faults.                                                                  *)

\* The Datastore fails a handler; an insert may have been done.
StoreFails(t) ==
    /\ faults < MaxFaults /\ faults' = faults + 1
    /\ t.path \in {"public_key", "commit"}
    /\ Reply(t, Failed)
    /\ \/ UNCHANGED <<claims, creds>>
       \/ /\ t.pc = "insert_claim" /\ claims[t.node][t.call.token] = None
          /\ claims' = [claims EXCEPT ![t.node][t.call.token] = t.call.key]
          /\ UNCHANGED creds
       \/ /\ t.pc = "insert_creds" /\ creds[t.node][t.call.user] = None
          /\ creds' = [creds EXCEPT ![t.node][t.call.user] = Fresh(t)]
          /\ UNCHANGED claims
    /\ UNCHANGED <<stored, memVars, leaderVars>>

\* The connection breaks: the leader sees an error, the handler may go on.
Disconnect(t) ==
    /\ faults < MaxFaults /\ faults' = faults + 1
    /\ call[t.call].round = t.round /\ call[t.call].stage = t.path
    /\ call[t.call].replies[t.node] = Waiting
    /\ call' = [call EXCEPT ![t.call].replies[t.node] = Failed]
    /\ tasks' \in {tasks, tasks \ {t}}
    /\ UNCHANGED <<dbVars, memVars, leaderVars>>

\* A sign node restarts: its handlers and maps are gone, the set of node keys
\* is loaded, if that does not fail.
RestartSignNode(n) ==
    LET dead == {t \in tasks : t.node = n}
    IN /\ faults < MaxFaults /\ faults' = faults + 1
       /\ tasks' = tasks \ dead
       /\ call' = [c \in Calls |->
              IF call[c].stage \in Paths /\ call[c].replies[n] = Waiting
              THEN [call[c] EXCEPT !.replies[n] = Failed] ELSE call[c]]
       /\ committed' = [committed EXCEPT ![n] = {}]
       /\ revealed' = [revealed EXCEPT ![n] = {}]
       /\ \E loaded \in BOOLEAN : ready' = [ready EXCEPT ![n] = stored[n] /\ loaded]
       /\ UNCHANGED <<dbVars, leaderVars>>

\* The leader restarts: its calls are over, its requests are not.
RestartLeader ==
    /\ serving /\ faults < MaxFaults /\ faults' = faults + 1
    /\ serving' = FALSE
    /\ accepted' = [n \in SignNodes |-> Waiting]
    /\ call' = [c \in Calls |->
           IF call[c].stage \in {"absent", "idle", "ok", "failed"} THEN call[c]
           ELSE [call[c] EXCEPT !.stage = "failed"]]
    /\ UNCHANGED <<dbVars, memVars, tasks, recovery>>

-----------------------------------------------------------------------------

LeaderStep(c) == RoundFails(c) \/ PublicKeyRound(c) \/ SigningRound(c) \/ Relayer(c)

Next ==
    \/ \E n \in SignNodes : AcceptPkSet(n) \/ BroadcastLost(n) \/ RestartSignNode(n)
    \/ Serve \/ RestartLeader
    \/ \E c \in Calls : Start(c) \/ LeaderStep(c)
    \/ \E t \in tasks : Handle(t) \/ StoreFails(t) \/ Disconnect(t)

Spec == Init /\ [][Next]_vars

HandleAt(c, n) == \E t \in tasks : t.call = c /\ t.node = n /\ Handle(t)

\* The runtime of each process gets round to every handler and every call, and the
\* Datastore answers or fails: no time-out of the program's own sees to that.
Fairness ==
    /\ \A c \in Calls : WF_vars(LeaderStep(c))
    /\ \A c \in Calls, n \in SignNodes : WF_vars(HandleAt(c, n))

FairSpec == Spec /\ Fairness

-----------------------------------------------------------------------------

StageOK(c) ==
    /\ call[c].stage \in Paths \cup {"absent", "idle", "relayer", "ok", "failed"}
    /\ call[c].tries \in 0..MaxRetries

\* The types of what the Datastores hold, and handlers and states in memory
\* that belong to rounds the leader has posted, within its retries.
TypeOK ==
    /\ claims \in [SignNodes -> [Tokens -> Keys \cup {None}]]
    /\ \A n \in SignNodes, u \in Users : creds[n][u] # None => creds[n][u] \in Seq(Nat)
    /\ stored \in [SignNodes -> BOOLEAN] /\ ready \in [SignNodes -> BOOLEAN]
    /\ \A c \in Calls : StageOK(c)
    /\ \A t \in tasks : t.round <= call[t.call].round
    /\ \A n \in SignNodes : \A s \in committed[n] \cup revealed[n] : s.round <= call[s.call].round
    /\ faults \in 0..MaxFaults

\* A user has one recovery key, ever: the key answered to clients, the key
\* registered with accounts and the key signed with are the same, although
\* each node draws its part when it is first asked, with other handlers
\* between lookup and insert.
OneRecoveryKey == \A u \in Users : Cardinality(recovery[u]) <= 1

\* A token serves one key: calls that succeeded on the same token were made
\* with the same key (README.md: claiming prevents others from using it).
TokenServesOneKey ==
    \A c, d \in Calls :
        c.token = d.token /\ call[c].stage = "ok" /\ call[d].stage = "ok" => c.key = d.key

\* No sign node is ever asked to commit to the deletion of a recovery key that
\* the service has given out, or of an account, although the check is made
\* with a key looked up in an earlier round.
RecoveryKeyStays ==
    \A n \in SignNodes : \A s \in committed[n] : s.call.action = "other"

Claimed(c) == \A n \in SignNodes : ready[n] /\ claims[n][c.token] = c.key

\* Unless there is a fault, a call with a claimed token succeeds, also when the
\* first calls for a user race each other to draw the user's credentials.
ClaimedCallSucceeds ==
    \A c \in Calls :
        (call[c].stage = "public_key" /\ call[c].tries = 0 /\ c.action = "other" /\ Claimed(c))
            ~> (call[c].stage = "ok" \/ faults > 0)

\* When every node has accepted the set of node keys, every node has saved it,
\* so that it is ready again after a restart.
AcceptedIsSaved == serving /\ (\A n \in SignNodes : accepted[n] = "ok") => \A n \in SignNodes : stored[n]

=============================================================================
