--------------------------- MODULE CipherRotation ---------------------------
(***************************************************************************)
(* Rotation of a sign node's cipher: the command RotateSignNodeCipher reads  *)
(* the credentials of one environment, decrypts each with the old cipher     *)
(* and writes it, encrypted with the new one, to another environment or in   *)
(* place.  It runs beside the sign nodes that serve the two environments     *)
(* and draw credentials for new users meanwhile, and it may fail or crash    *)
(* between two records and be run again.                                    *)
(*                                                                          *)
(* The environments are kinds of one Datastore, so db is indexed by          *)
(* environment.  Of the sign nodes, what reads and writes credentials is     *)
(* modelled (get_or_generate_user_creds); the calls it serves are            *)
(* RecoveryService's subject.  The records of other nodes stand for those a  *)
(* shared Datastore holds (as in the integration tests).                    *)
(***************************************************************************)
EXTENDS Datastore, FiniteSets

CONSTANTS NodeId,       \* the node whose cipher is rotated
          OtherNode,    \* a node with records in the same Datastore
          Users,        \* internal account ids of NodeId's users
          OtherUsers,   \* and of the other node's
          Src, NewEnv,  \* --env and a value of --new-env
          Old, New,     \* cipher keys; Old is the secret of NodeId in Src
          Others,       \* the cipher of the other node
          Invocations,  \* the command lines, see InvocationType
          Down,         \* no process
          MaxRuns,      \* bound on runs of the command
          MaxDraws,     \* bound on key pairs that the nodes draw
          MaxFaults     \* bound on crashes and failures of the Datastore

\* An option that is left out is Absent.
InvocationType == [new_env : {NewEnv, Absent}, old_cipher_key : {Old, Absent},
                   new_cipher_key : {New, Absent}]

Envs == {Src, NewEnv}
Names == ({NodeId} \X Users) \cup ({OtherNode} \X OtherUsers)

ASSUME RotationAssumption ==
    /\ Invocations \subseteq InvocationType
    /\ NodeId \in Nat /\ OtherNode \in Nat /\ NodeId # OtherNode
    /\ Src # NewEnv /\ Old # New /\ Others \notin {Old, New} /\ Down \notin {Old, New}
    /\ Absent \notin Envs \cup {Old, New} \cup Nat
    /\ MaxRuns \in Nat /\ MaxDraws \in Nat /\ MaxFaults \in Nat

\* The key pairs that are ever drawn: for a user, in an environment.
KeyPairs == [node : {NodeId, OtherNode}, env : Envs, user : Users \cup OtherUsers,
             draw : 0..MaxDraws]
Ciphers == {Old, New, Others}

\* The lookup of a record answers with an entity or with none.
ASSUME EntityAssumption ==
    \A name \in Names, cipher \in Ciphers, key_pair \in KeyPairs :
        ToEntity(Credentials(name[1], name[2], cipher, key_pair)) # Absent

VARIABLES db,        \* Datastore: environment -> name -> entity or Absent
          command,   \* the command line that is run, and run again
          job,       \* the run of the command: phase, runs, entities left, entities fetched
          node,      \* environment -> the cipher NodeId runs with there, or Down
          inserting, \* handlers that have looked up a user in vain: <<environment, user>>
          draws,     \* key pairs drawn so far
          given,     \* history: environment -> name -> public keys that clients may know
          moved,     \* history: the command has written a record
          foreign,   \* history: a record of NodeId in Src was made with another cipher than Old
          faults

nodeVars == <<node, inserting, draws>>
history == <<given, moved, foreign>>
vars == <<db, command, job, node, inserting, draws, given, moved, foreign, faults>>

KeyPair(n, e, u, k) == [node |-> n, env |-> e, user |-> u, draw |-> k]

Init ==
    /\ command \in Invocations
    /\ \E names \in SUBSET Names :
        LET first(name) == Credentials(name[1], name[2], IF name[1] = NodeId THEN Old ELSE Others,
                                       KeyPair(name[1], Src, name[2], 0))
            exists(e, name) == e = Src /\ name \in names
        IN /\ db = [e \in Envs |-> [name \in Names |->
                       IF exists(e, name) THEN ToEntity(first(name)) ELSE Absent]]
           /\ given = [e \in Envs |-> [name \in Names |->
                       IF exists(e, name) THEN {first(name).public_key} ELSE {}]]
    /\ job = [phase |-> "idle", runs |-> 0, left |-> {}, batch |-> {}]
    /\ node = [e \in Envs |-> Down]
    /\ inserting = {} /\ draws = 0
    /\ moved = FALSE /\ foreign = FALSE /\ faults = 0

-----------------------------------------------------------------------------
(* The command.                                                             *)

\* No --new-env means in place.
Dest == IF command.new_env = Absent THEN Src ELSE command.new_env

\* load_cipher_key: a key that is not given is the secret of the node in Src,
\* the new one too.
LoadCipherKey(arg) == IF arg = Absent THEN Old ELSE arg

OldCipher == LoadCipherKey(command.old_cipher_key)
NewCipher == LoadCipherKey(command.new_cipher_key)

Entities(e) == {db[e][name] : name \in {m \in Names : db[e][m] # Absent}}

\* Mutant: a second run reads where the first one wrote.
FetchEntitiesDest ==
    /\ job.phase # "rotating" /\ job.runs < MaxRuns
    /\ \E batch \in SUBSET Entities(Dest) :
        /\ batch # {}
        /\ job' = [phase |-> "rotating", runs |-> job.runs + 1, left |-> batch, batch |-> batch]
    /\ UNCHANGED <<db, command, nodeVars, history, faults>>

\* The command starts with one query.  The Datastore answers with a first
\* batch, all there is or not, and the rest is not asked for.  No entity at
\* all is an error, since the answer then has no list.
FetchEntities ==
    /\ job.phase # "rotating" /\ job.runs < MaxRuns
    /\ \/ \E batch \in SUBSET Entities(Src) :
            /\ batch # {}
            /\ job' = [phase |-> "rotating", runs |-> job.runs + 1, left |-> batch, batch |-> batch]
            /\ UNCHANGED faults
       \/ /\ Entities(Src) = {}
          /\ job' = [job EXCEPT !.phase = "failed", !.runs = @ + 1]
          /\ UNCHANGED faults
       \/ /\ faults < MaxFaults /\ faults' = faults + 1
          /\ job' = [job EXCEPT !.phase = "failed", !.runs = @ + 1]
    /\ UNCHANGED <<db, command, nodeVars, history>>

\* The entity is of another node: its name says so.
SkipEntity(e) ==
    /\ job.phase = "rotating" /\ e \in job.left /\ e.key[1] # NodeId
    /\ job' = [job EXCEPT !.left = @ \ {e}]
    /\ UNCHANGED <<db, command, nodeVars, history, faults>>

\* Mutant: the record keeps its cipher.
ReencryptedOld(cred) ==
    Credentials(cred.node_id, cred.internal_account_id, OldCipher, DecryptKeyPair(cred))

\* The record that takes the place of cred.
Reencrypted(cred) ==
    Credentials(cred.node_id, cred.internal_account_id, NewCipher, DecryptKeyPair(cred))

\* GcpService::upsert
Upsert(e, cred) == db' = [db EXCEPT ![e][CredentialsName(cred)] = ToEntity(cred)]

\* Decrypted with the old cipher, encrypted with the new, written; decrypting
\* what the old cipher did not encrypt panics.
RotateEntity(e) ==
    LET cred == OfEntity(e)
    IN /\ job.phase = "rotating" /\ e \in job.left /\ e.key[1] = NodeId
       /\ \/ /\ ~ Decrypts(cred, OldCipher)
             /\ job' = [job EXCEPT !.phase = "panicked"]
             /\ UNCHANGED <<db, moved, faults>>
          \/ /\ Decrypts(cred, OldCipher)
             /\ Upsert(Dest, Reencrypted(cred))
             /\ job' = [job EXCEPT !.left = @ \ {e}]
             /\ moved' = TRUE /\ UNCHANGED faults
          \/ /\ Decrypts(cred, OldCipher)         \* the upsert fails, done or not
             /\ faults < MaxFaults /\ faults' = faults + 1
             /\ job' = [job EXCEPT !.phase = "failed"]
             /\ \/ UNCHANGED <<db, moved>>
                \/ Upsert(Dest, Reencrypted(cred)) /\ moved' = TRUE
       /\ UNCHANGED <<command, nodeVars, given, foreign>>

Finish ==
    /\ job.phase = "rotating" /\ job.left = {}
    /\ job' = [job EXCEPT !.phase = "ok"]
    /\ UNCHANGED <<db, command, nodeVars, history, faults>>

CrashJob ==
    /\ job.phase = "rotating" /\ faults < MaxFaults
    /\ faults' = faults + 1
    /\ job' = [job EXCEPT !.phase = "failed"]
    /\ UNCHANGED <<db, command, nodeVars, history>>

-----------------------------------------------------------------------------
(* The sign node NodeId, in each environment.                                *)

\* An operator starts it with either key, whether or not that is wise.  (What
\* an environment without part in the rotation does is of no interest.)
StartSign(e, cipher) ==
    /\ node[e] = Down /\ e \in {Src, Dest}
    /\ node' = [node EXCEPT ![e] = cipher]
    /\ UNCHANGED <<db, command, job, inserting, draws, history, faults>>

StopSign(e) ==
    /\ node[e] # Down
    /\ node' = [node EXCEPT ![e] = Down]
    /\ inserting' = {t \in inserting : t[1] # e}
    /\ UNCHANGED <<db, command, job, draws, history, faults>>

Give(e, u, cred) == given' = [given EXCEPT ![e][<<NodeId, u>>] = @ \cup {cred.public_key}]

\* get_or_generate_user_creds, the lookup, by any number of handlers.
LookupUser(e, u) ==
    LET found == db[e][<<NodeId, u>>]
    IN /\ node[e] # Down
       /\ \/ found # Absent /\ Give(e, u, OfEntity(found)) /\ UNCHANGED inserting
          \/ found = Absent /\ inserting' = inserting \cup {<<e, u>>} /\ UNCHANGED given
       /\ UNCHANGED <<db, command, job, node, draws, moved, foreign, faults>>

\* Mutant: upsert in place of insert.
UpsertUser(e, u) ==
    LET cred == Credentials(NodeId, u, node[e], KeyPair(NodeId, e, u, draws + 1))
    IN /\ <<e, u>> \in inserting /\ draws < MaxDraws
       /\ inserting' = inserting \ {<<e, u>>} /\ draws' = draws + 1
       /\ Upsert(e, cred) /\ Give(e, u, cred)
       /\ foreign' = (foreign \/ (e = Src /\ node[e] # OldCipher))
       /\ UNCHANGED <<command, job, node, moved, faults>>

\* GcpService::insert of a new record.
Insert(e, u, cred) ==
    /\ db[e][<<NodeId, u>>] = Absent
    /\ db' = [db EXCEPT ![e][CredentialsName(cred)] = ToEntity(cred)]
    /\ foreign' = (foreign \/ (e = Src /\ node[e] # OldCipher))

\* get_or_generate_user_creds, the insert, which fails if there is a record by
\* now, or if the Datastore does, done or not.
InsertUser(e, u) ==
    LET cred == Credentials(NodeId, u, node[e], KeyPair(NodeId, e, u, draws + 1))
    IN /\ <<e, u>> \in inserting /\ draws < MaxDraws
       /\ inserting' = inserting \ {<<e, u>>} /\ draws' = draws + 1
       /\ \/ Insert(e, u, cred) /\ Give(e, u, cred) /\ UNCHANGED faults
          \/ db[e][<<NodeId, u>>] # Absent /\ UNCHANGED <<db, given, foreign, faults>>
          \/ /\ faults < MaxFaults /\ faults' = faults + 1
             /\ Insert(e, u, cred) \/ UNCHANGED <<db, foreign>>
             /\ UNCHANGED given
       /\ UNCHANGED <<command, job, node, moved>>

Next ==
    \/ FetchEntities \/ Finish \/ CrashJob
    \/ \E e \in job.left : SkipEntity(e) \/ RotateEntity(e)
    \/ \E e \in Envs : StopSign(e) \/ \E cipher \in {Old, New} : StartSign(e, cipher)
    \/ \E e \in Envs, u \in Users : LookupUser(e, u) \/ InsertUser(e, u)

Spec == Init /\ [][Next]_vars

-----------------------------------------------------------------------------
(* Properties.                                                              *)

Cred(e, name) == OfEntity(db[e][name])

\* Whatever is in the Datastore reads back as the well-formed record it was made
\* of (into_value and from_value agree), under its own name and with a key pair
\* that was drawn and a cipher some node has; an insert is of a running node.
TypeOK ==
    /\ command \in Invocations
    /\ \A e \in Envs, name \in Names : db[e][name] # Absent =>
        /\ db[e][name] = ToEntity(Cred(e, name))
        /\ CredentialsName(Cred(e, name)) = name
        /\ Cred(e, name).encrypted_key_pair.cipher \in Ciphers
        /\ DecryptKeyPair(Cred(e, name)) \in KeyPairs
    /\ job.phase \in {"idle", "rotating", "ok", "failed", "panicked"}
    /\ job.runs \in 0..MaxRuns /\ job.left \subseteq job.batch
    /\ \A b \in job.batch : b.key \in Names
    /\ node \in [Envs -> {Old, New, Down}]
    /\ inserting \subseteq Envs \X Users
    /\ \A t \in inserting : node[t[1]] # Down
    /\ draws \in 0..MaxDraws /\ faults \in 0..MaxFaults

\* The record of name in e holds the key pair of public key pk, and a cipher
\* that its node may have opens it.
Recovers(e, name, pk) ==
    /\ db[e][name] # Absent
    /\ Cred(e, name).public_key = pk
    /\ PublicKey(DecryptKeyPair(Cred(e, name))) = pk
    /\ Cred(e, name).encrypted_key_pair.cipher \in
           IF name[1] = NodeId THEN {Old, New} ELSE {Others}

\* No key is lost: for every public key that clients may know, the key pair is
\* still in the Datastore, whatever was interrupted, repeated or done at the
\* same time.  The one exception is a key that the node of the new environment
\* drew for a user whose record had yet to arrive, and then arrived.
KeyKept ==
    \A e \in Envs, name \in Names : \A pk \in given[e][name] :
        \/ Recovers(e, name, pk)
        \/ /\ e = NewEnv /\ Dest = NewEnv /\ pk.public_key_of.env = NewEnv
           /\ db[Src][name] # Absent /\ Recovers(e, name, Cred(Src, name).public_key)

\* A run that ended well has made every record of its node that the query
\* returned readable with the new cipher, with the key pair it has in Src, and
\* it stays so, although nodes with either cipher write to both environments.
RotatedIsReadable ==
    job.phase = "ok" =>
        \A b \in job.batch : b.key[1] = NodeId =>
            /\ db[Dest][b.key] # Absent
            /\ Decrypts(Cred(Dest, b.key), NewCipher)
            /\ DecryptKeyPair(Cred(Dest, b.key)) = DecryptKeyPair(OfEntity(b))
            /\ DecryptKeyPair(Cred(Src, b.key)) = DecryptKeyPair(OfEntity(b))

\* A failed rotation can be run again: a run panics only in place, after an
\* earlier one had rotated a record, or when a node with another cipher than
\* the old one has made records in Src.
RunsAgain ==
    job.phase = "panicked" =>
        foreign \/ (moved /\ Dest = Src /\ OldCipher # NewCipher)

=============================================================================
