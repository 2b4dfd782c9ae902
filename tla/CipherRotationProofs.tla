------------------------ MODULE CipherRotationProofs ------------------------
(***************************************************************************)
(* Proofs about CipherRotation, for any users, any command lines and any    *)
(* number of runs, draws and faults.  The argument is about one record: the *)
(* trip to the Datastore and back loses nothing (RoundTrip); the key pair   *)
(* of a record in Src never changes once it is there, so that what a run    *)
(* fetched stays what Src holds (Fetched), what it has written stays        *)
(* readable with the new cipher (Written), and a record of the new          *)
(* environment was drawn there or is the one of Src (Origin).               *)
(***************************************************************************)
EXTENDS CipherRotation, TLAPS

\* The entity of a record, and what is read from it.
Stored(name, c, k) == ToEntity(Credentials(name[1], name[2], c, k))
CipherOf(x) == OfEntity(x).encrypted_key_pair.cipher
KeyPairOf(x) == DecryptKeyPair(OfEntity(x))

CiphersOf(name) == IF name[1] = NodeId THEN {Old, New} ELSE {Others}
EntitiesOf(name) == {Stored(name, c, k) : c \in CiphersOf(name), k \in KeyPairs}
AllEntities == UNION {EntitiesOf(name) : name \in Names}

Phases == {"idle", "rotating", "ok", "failed", "panicked"}
Jobs == [phase : Phases, runs : 0..MaxRuns, left : SUBSET AllEntities, batch : SUBSET AllEntities]

Shape ==
    /\ command \in Invocations
    /\ DOMAIN db = Envs /\ DOMAIN given = Envs
    /\ \A e \in Envs : DOMAIN db[e] = Names /\ DOMAIN given[e] = Names
    /\ \A e \in Envs, name \in Names : db[e][name] \in EntitiesOf(name) \cup {Absent}
    /\ job \in Jobs /\ job.left \subseteq job.batch /\ (job.phase = "ok" => job.left = {})
    /\ node \in [Envs -> {Old, New, Down}]
    /\ inserting \subseteq Envs \X Users
    /\ \A t \in inserting : node[t[1]] # Down
    /\ draws \in 0..MaxDraws /\ faults \in 0..MaxFaults
    /\ moved \in BOOLEAN /\ foreign \in BOOLEAN

\* What a run fetched is still in Src, with the same key pair.
Fetched ==
    \A b \in job.batch :
        db[Src][b.key] # Absent /\ KeyPairOf(db[Src][b.key]) = KeyPairOf(b)

\* What a run has written is still there.
Written ==
    job.phase \in {"rotating", "ok"} =>
        \A b \in job.batch : b \notin job.left /\ b.key[1] = NodeId =>
            /\ db[Dest][b.key] # Absent
            /\ CipherOf(db[Dest][b.key]) = NewCipher
            /\ KeyPairOf(db[Dest][b.key]) = KeyPairOf(b)

\* Nothing has been done that leaves a record of Src with another cipher than
\* the old one.
Unspoilt == ~ foreign /\ ~ (moved /\ Dest = Src /\ OldCipher # NewCipher)

OldReadable ==
    Unspoilt =>
        /\ job.phase # "panicked"
        /\ \A b \in job.batch : b.key[1] = NodeId => CipherOf(b) = OldCipher
        /\ \A name \in Names : name[1] = NodeId /\ db[Src][name] # Absent
              => CipherOf(db[Src][name]) = OldCipher

\* A key pair of the new environment was drawn there, or rotated into it.
Origin ==
    \A name \in Names : db[NewEnv][name] # Absent =>
        \/ KeyPairOf(db[NewEnv][name]).env = NewEnv
        \/ db[Src][name] # Absent /\ KeyPairOf(db[NewEnv][name]) = KeyPairOf(db[Src][name])

\* Clients know the key of a record, or one that a rotation has replaced.
Given ==
    \A e \in Envs, name \in Names : \A pk \in given[e][name] :
        /\ db[e][name] # Absent
        /\ \/ pk = PublicKey(KeyPairOf(db[e][name]))
           \/ /\ e = NewEnv /\ Dest = NewEnv /\ pk.public_key_of.env = NewEnv
              /\ db[Src][name] # Absent
              /\ KeyPairOf(db[NewEnv][name]) = KeyPairOf(db[Src][name])

IInv == Shape /\ Fetched /\ Written /\ OldReadable /\ Origin /\ Given
-----------------------------------------------------------------------------
(* Records and entities.                                                    *)

\* A name is a node and a user.
LEMMA NamePair ==
    ASSUME NEW name \in Names
    PROVE  name = <<name[1], name[2]>> /\ name[1] \in Nat /\ name[1] # Absent
  BY RotationAssumption DEF Names

\* What GcpService writes it reads back, field by field: an integer comes back
\* as an integer although the Datastore's value is a record of options.
LEMMA RoundTrip ==
    ASSUME NEW n, n # Absent, NEW u, NEW c, NEW k
    PROVE  /\ OfEntity(ToEntity(Credentials(n, u, c, k))) = Credentials(n, u, c, k)
           /\ ToEntity(Credentials(n, u, c, k)).key = <<n, u>>
<1> DEFINE cr == Credentials(n, u, c, k)
           v == CredentialsIntoValue(cr)
           x == EntityFromValue(v)
           w == EntityIntoValue(x)
<1>1. /\ cr.node_id = n /\ cr.internal_account_id = u /\ cr.public_key = PublicKey(k)
      /\ cr.encrypted_key_pair = Encrypt(c, Json(k))
  BY DEF Credentials
<1> HIDE DEF cr
<1>2. /\ v.key = <<n, u>>
      /\ DOMAIN v.properties = {"node_id", "internal_account_id", "public_key", "encrypted_key_pair"}
      /\ v.properties.node_id = IntegerValue(n)
      /\ v.properties.internal_account_id = StringValue(u)
      /\ v.properties.public_key = StringValue(Json(PublicKey(k)))
      /\ v.properties.encrypted_key_pair = StringValue(Json(Hex(Encrypt(c, Json(k)))))
  BY <1>1 DEF CredentialsIntoValue, CredentialsName
<1> HIDE DEF v
<1>3. /\ x.key = <<n, u>> /\ DOMAIN x.properties = DOMAIN v.properties
      /\ x.properties.node_id = FromValue(IntegerValue(n))
      /\ x.properties.internal_account_id = FromValue(StringValue(u))
      /\ x.properties.public_key = FromValue(StringValue(Json(PublicKey(k))))
      /\ x.properties.encrypted_key_pair = FromValue(StringValue(Json(Hex(Encrypt(c, Json(k))))))
  BY <1>2 DEF EntityFromValue
<1> HIDE DEF x
<1>4. IntoValue(FromValue(IntegerValue(n))) = IntegerValue(n)
  BY DEF IntoValue, FromValue, IntegerValue
<1>5. ASSUME NEW t PROVE IntoValue(FromValue(StringValue(t))) = StringValue(t)
  BY DEF IntoValue, FromValue, StringValue
<1>6. /\ w.properties.node_id = IntegerValue(n)
      /\ w.properties.internal_account_id = StringValue(u)
      /\ w.properties.public_key = StringValue(Json(PublicKey(k)))
      /\ w.properties.encrypted_key_pair = StringValue(Json(Hex(Encrypt(c, Json(k)))))
  BY <1>2, <1>3, <1>4, <1>5 DEF EntityIntoValue
<1> HIDE DEF w
<1>7. /\ As("integer", w.properties.node_id) = n
      /\ As("string", w.properties.internal_account_id) = u
      /\ As("string", w.properties.public_key) = Json(PublicKey(k))
      /\ As("string", w.properties.encrypted_key_pair) = Json(Hex(Encrypt(c, Json(k))))
  BY <1>6 DEF As, IntegerValue, StringValue
<1>8. \A t : Decode("json", Json(t)) = t /\ Decode("hex", Hex(t)) = t
  BY DEF Decode, Json, Hex
<1>9. CredentialsFromValue(w) = [node_id |-> n, internal_account_id |-> u,
          public_key |-> PublicKey(k), encrypted_key_pair |-> Encrypt(c, Json(k))]
  BY <1>7, <1>8 DEF CredentialsFromValue
<1>10. OfEntity(ToEntity(cr)) = CredentialsFromValue(w)
  BY DEF OfEntity, ToEntity, w, x, v
<1> QED
  BY <1>3, <1>9, <1>10 DEF cr, x, v, ToEntity, Credentials

\* What is known of the entity of a record.
LEMMA StoredFacts ==
    ASSUME NEW name \in Names, NEW c, NEW k, NEW x, x = Stored(name, c, k)
    PROVE  /\ x.key = name
           /\ OfEntity(x) = Credentials(name[1], name[2], c, k)
           /\ CredentialsName(OfEntity(x)) = name
           /\ CipherOf(x) = c /\ KeyPairOf(x) = k
           /\ OfEntity(x).public_key = PublicKey(k)
           /\ OfEntity(x).node_id = name[1] /\ OfEntity(x).internal_account_id = name[2]
           /\ ToEntity(OfEntity(x)) = x
<1>1. /\ OfEntity(x) = Credentials(name[1], name[2], c, k)
      /\ x.key = <<name[1], name[2]>>
  BY RoundTrip, NamePair DEF Stored
<1>2. /\ OfEntity(x).node_id = name[1] /\ OfEntity(x).internal_account_id = name[2]
      /\ OfEntity(x).public_key = PublicKey(k) /\ CipherOf(x) = c
      /\ OfEntity(x).encrypted_key_pair = Encrypt(c, Json(k))
  BY <1>1 DEF Credentials, CipherOf, Encrypt
<1>3. KeyPairOf(x) = k
  BY <1>2 DEF KeyPairOf, DecryptKeyPair, Decode, Json, Encrypt
<1> QED
  BY <1>1, <1>2, <1>3, NamePair DEF CredentialsName, Stored

\* The same of what the Datastore may hold under a name.
LEMMA EntityFacts ==
    ASSUME NEW name \in Names, NEW x \in EntitiesOf(name)
    PROVE  /\ x.key = name /\ x # Absent /\ x \in AllEntities
           /\ CredentialsName(OfEntity(x)) = name
           /\ CipherOf(x) \in CiphersOf(name) /\ KeyPairOf(x) \in KeyPairs
           /\ OfEntity(x).public_key = PublicKey(KeyPairOf(x))
           /\ OfEntity(x).node_id = name[1] /\ OfEntity(x).internal_account_id = name[2]
           /\ ToEntity(OfEntity(x)) = x
<1>1. PICK c \in CiphersOf(name), k \in KeyPairs : x = Stored(name, c, k)
  BY DEF EntitiesOf
<1>2. x # Absent
  BY <1>1, EntityAssumption DEF Stored, CiphersOf, Ciphers
<1>3. x \in AllEntities
  BY DEF AllEntities
<1> QED
  BY <1>1, <1>2, <1>3, StoredFacts

\* The same of what a run has fetched.
LEMMA BatchFacts ==
    ASSUME Shape, NEW b \in job.batch
    PROVE  b.key \in Names /\ b \in EntitiesOf(b.key)
<1>1. PICK name \in Names : b \in EntitiesOf(name)
  BY DEF Shape, Jobs, AllEntities
<1> QED
  BY <1>1, EntityFacts

\* The command line gives a destination and ciphers; the old one is the secret
\* of the node, whether it is given or loaded.
LEMMA CommandFacts ==
    ASSUME Shape
    PROVE  /\ Dest \in Envs /\ Src \in Envs /\ NewEnv \in Envs /\ Src # NewEnv
           /\ OldCipher = Old /\ NewCipher \in {Old, New}
  BY RotationAssumption DEF Shape, InvocationType, Dest, OldCipher, NewCipher, LoadCipherKey, Envs

-----------------------------------------------------------------------------
(* Every step keeps the invariant.                                          *)

\* Init: the records of Src, made with the old cipher.
LEMMA InitIInv == Init => IInv
<1> SUFFICES ASSUME Init PROVE IInv
  OBVIOUS
<1> DEFINE first(name) == Credentials(name[1], name[2], IF name[1] = NodeId THEN Old ELSE Others,
                                      KeyPair(name[1], Src, name[2], 0))
<1>1. PICK names \in SUBSET Names :
        /\ db = [e \in Envs |-> [name \in Names |->
                     IF e = Src /\ name \in names THEN ToEntity(first(name)) ELSE Absent]]
        /\ given = [e \in Envs |-> [name \in Names |->
                     IF e = Src /\ name \in names THEN {first(name).public_key} ELSE {}]]
  BY DEF Init
<1>2. /\ command \in Invocations
      /\ job = [phase |-> "idle", runs |-> 0, left |-> {}, batch |-> {}]
      /\ node = [e \in Envs |-> Down] /\ inserting = {} /\ draws = 0
      /\ moved = FALSE /\ foreign = FALSE /\ faults = 0
  BY DEF Init
<1>3. ASSUME NEW name \in Names
      PROVE  /\ ToEntity(first(name)) \in EntitiesOf(name)
             /\ ToEntity(first(name)) # Absent
             /\ first(name).public_key = PublicKey(KeyPairOf(ToEntity(first(name))))
             /\ name[1] = NodeId => CipherOf(ToEntity(first(name))) = Old
  <2> DEFINE c == IF name[1] = NodeId THEN Old ELSE Others
             k == KeyPair(name[1], Src, name[2], 0)
  <2>1. c \in CiphersOf(name) /\ k \in KeyPairs
    BY RotationAssumption DEF CiphersOf, KeyPairs, KeyPair, Names, Envs
  <2>2. ToEntity(first(name)) = Stored(name, c, k)
    BY DEF Stored
  <2> HIDE DEF c, k
  <2>3. ToEntity(first(name)) \in EntitiesOf(name)
    BY <2>1, <2>2 DEF EntitiesOf
  <2>4. first(name) = OfEntity(ToEntity(first(name)))
    BY RoundTrip, NamePair
  <2> QED
    BY <2>2, <2>3, <2>4, EntityFacts, StoredFacts DEF c
<1> HIDE DEF first
<1>4. Shape
  <2>1. job \in Jobs
    BY <1>2, RotationAssumption DEF Jobs, Phases
  <2>2. \A e \in Envs, name \in Names : db[e][name] \in EntitiesOf(name) \cup {Absent}
    BY <1>1, <1>3
  <2>3. /\ DOMAIN db = Envs /\ DOMAIN given = Envs
        /\ \A e \in Envs : DOMAIN db[e] = Names /\ DOMAIN given[e] = Names
    BY <1>1
  <2>4. node \in [Envs -> {Old, New, Down}] /\ draws \in 0..MaxDraws /\ faults \in 0..MaxFaults
    BY <1>2, RotationAssumption
  <2> QED
    BY <1>2, <2>1, <2>2, <2>3, <2>4 DEF Shape
<1>5. Fetched /\ Written
  BY <1>2 DEF Fetched, Written
<1>6. OldReadable
  BY <1>1, <1>2, <1>3, <1>4, CommandFacts DEF OldReadable
<1>7. Origin
  BY <1>1, <1>4, CommandFacts DEF Origin
<1>8. Given
  BY <1>1, <1>3 DEF Given
<1> QED
  BY <1>4, <1>5, <1>6, <1>7, <1>8 DEF IInv

\* The start of a run: the batch is what Src holds at that moment.
LEMMA FetchStep ==
    ASSUME IInv, FetchEntities
    PROVE  IInv'
<1>1. /\ UNCHANGED <<db, command, node, inserting, draws, given, moved, foreign>>
      /\ job.runs < MaxRuns /\ job.runs \in 0..MaxRuns /\ job \in Jobs
  BY DEF FetchEntities, nodeVars, history, IInv, Shape, Jobs
<1>2. faults' \in 0..MaxFaults
  BY RotationAssumption DEF FetchEntities, IInv, Shape
<1>3. CASE \E batch \in SUBSET Entities(Src) :
             job' = [phase |-> "rotating", runs |-> job.runs + 1, left |-> batch, batch |-> batch]
  <2>1. PICK batch \in SUBSET Entities(Src) :
          job' = [phase |-> "rotating", runs |-> job.runs + 1, left |-> batch, batch |-> batch]
    BY <1>3
  <2>2. ASSUME NEW b \in batch
        PROVE  b \in AllEntities /\ b.key \in Names /\ b # Absent /\ b = db[Src][b.key]
    <3>1. PICK name \in Names : b = db[Src][name] /\ b # Absent
      BY DEF Entities
    <3>2. b \in EntitiesOf(name)
      BY <3>1, CommandFacts DEF IInv, Shape
    <3> QED
      BY <3>1, <3>2, EntityFacts
  <2>3. job' \in Jobs
    BY <1>1, <2>1, <2>2, RotationAssumption DEF Jobs, Phases
  <2>4. Shape'
    BY <1>1, <1>2, <2>1, <2>3 DEF IInv, Shape
  <2>5. Fetched' /\ Written'
    BY <1>1, <2>1, <2>2 DEF Fetched, Written
  <2>6. OldReadable'
    BY <1>1, <2>1, <2>2 DEF IInv, OldReadable, Unspoilt, Dest, OldCipher, NewCipher, LoadCipherKey
  <2>7. Origin' /\ Given'
    BY <1>1 DEF IInv, Origin, Given, Dest
  <2> QED
    BY <2>4, <2>5, <2>6, <2>7 DEF IInv
<1>4. CASE job' = [job EXCEPT !.phase = "failed", !.runs = @ + 1]
  <2>1. /\ job' \in Jobs /\ job'.phase = "failed"
        /\ job'.left = job.left /\ job'.batch = job.batch
    <3> DEFINE r == job.runs + 1
    <3>1. r \in 0..MaxRuns
      BY <1>1, RotationAssumption
    <3>2. job' = [job EXCEPT !.phase = "failed", !.runs = r]
      BY <1>4
    <3> HIDE DEF r
    <3> QED
      BY <1>1, <3>1, <3>2 DEF Jobs, Phases
  <2>2. Shape'
    BY <1>1, <1>2, <2>1 DEF IInv, Shape
  <2>3. Fetched' /\ Written'
    BY <1>1, <2>1 DEF IInv, Fetched, Written
  <2>4. OldReadable'
    BY <1>1, <2>1 DEF IInv, OldReadable, Unspoilt, Dest, OldCipher, NewCipher, LoadCipherKey
  <2>5. Origin' /\ Given'
    BY <1>1 DEF IInv, Origin, Given, Dest
  <2> QED
    BY <2>2, <2>3, <2>4, <2>5 DEF IInv
<1> QED
  BY <1>3, <1>4 DEF FetchEntities

\* Steps of the run that write nothing: an entity of another node, the end, a
\* crash, and the panic at a record the old cipher does not open, which shows
\* that somebody has used another.
LEMMA JobStep ==
    ASSUME IInv, NEW b, UNCHANGED <<db, command, node, inserting, draws, given, moved, foreign>>,
           faults' \in 0..MaxFaults, job.phase = "rotating",
           \/ b \in job.left /\ b.key[1] # NodeId /\ job' = [job EXCEPT !.left = @ \ {b}]
           \/ job.left = {} /\ job' = [job EXCEPT !.phase = "ok"]
           \/ job' = [job EXCEPT !.phase = "failed"]
           \/ b \in job.left /\ b.key[1] = NodeId /\ CipherOf(b) # OldCipher
                /\ job' = [job EXCEPT !.phase = "panicked"]
    PROVE  IInv'
<1>1. job \in Jobs /\ job.left \subseteq job.batch
  BY DEF IInv, Shape
<1>2. /\ job' \in Jobs /\ job'.left \subseteq job'.batch /\ job'.batch = job.batch
      /\ \/ job'.phase = "rotating" /\ b.key[1] # NodeId /\ job'.left = job.left \ {b}
         \/ job'.phase = "ok" /\ job.left = {} /\ job'.left = {}
         \/ job'.phase = "failed"
         \/ job'.phase = "panicked" /\ b \in job.batch /\ b.key[1] = NodeId /\ CipherOf(b) # OldCipher
  BY <1>1 DEF Jobs, Phases
<1>3. Shape'
  BY <1>2 DEF IInv, Shape
<1>4. Fetched'
  BY <1>2 DEF IInv, Fetched
<1>5. Written'
  BY <1>2 DEF IInv, Written, Dest, NewCipher, LoadCipherKey
<1>6. OldReadable'
  BY <1>2 DEF IInv, OldReadable, Unspoilt, Dest, OldCipher, NewCipher, LoadCipherKey
<1>7. Origin' /\ Given'
  BY DEF IInv, Origin, Given, Dest
<1> QED
  BY <1>3, <1>4, <1>5, <1>6, <1>7 DEF IInv

\* One record is rotated: its name had a record in Src with this key pair, so
\* that rotating it again, or in place, changes no key pair of Src.
LEMMA RotateWrite ==
    ASSUME IInv, NEW b \in job.left, b.key[1] = NodeId,
           Upsert(Dest, Reencrypted(OfEntity(b))), moved' = TRUE,
           UNCHANGED <<command, given, foreign>>,
           job' \in Jobs, job'.batch = job.batch,
           job'.phase = "failed" \/ (job'.phase = "rotating" /\ job'.left = job.left \ {b}),
           job.phase = "rotating"
    PROVE  /\ DOMAIN db' = Envs /\ \A e \in Envs : DOMAIN db'[e] = Names
           /\ \A e \in Envs, name \in Names : db'[e][name] \in EntitiesOf(name) \cup {Absent}
           /\ Fetched' /\ Written' /\ OldReadable' /\ Origin' /\ Given'
<1> DEFINE name == b.key
           x == Stored(name, NewCipher, KeyPairOf(b))
<1>1. /\ b \in job.batch /\ name \in Names /\ b \in EntitiesOf(name)
      /\ db[Src][name] # Absent /\ KeyPairOf(db[Src][name]) = KeyPairOf(b)
      /\ KeyPairOf(b) \in KeyPairs
  BY BatchFacts, EntityFacts DEF IInv, Shape, Fetched
<1>2. /\ Dest \in Envs /\ Src \in Envs /\ NewEnv \in Envs /\ Src # NewEnv
      /\ OldCipher = Old /\ NewCipher \in {Old, New}
      /\ Dest' = Dest /\ OldCipher' = OldCipher /\ NewCipher' = NewCipher
  BY CommandFacts DEF IInv, Dest, OldCipher, NewCipher, LoadCipherKey
<1>3. x \in EntitiesOf(name) /\ x # Absent /\ CipherOf(x) = NewCipher /\ KeyPairOf(x) = KeyPairOf(b)
  <2>1. x \in EntitiesOf(name)
    BY <1>1, <1>2 DEF EntitiesOf, CiphersOf
  <2> QED
    BY <1>1, <2>1, EntityFacts, StoredFacts
<1>4. db' = [db EXCEPT ![Dest][name] = x]
  <2>1. Reencrypted(OfEntity(b)) = Credentials(name[1], name[2], NewCipher, KeyPairOf(b))
    BY <1>1, EntityFacts DEF Reencrypted, KeyPairOf
  <2>2. CredentialsName(Credentials(name[1], name[2], NewCipher, KeyPairOf(b))) = name
    BY <1>1, NamePair DEF CredentialsName, Credentials
  <2> QED
    BY <2>1, <2>2 DEF Upsert, Stored
<1> HIDE DEF x, name
<1>5. /\ DOMAIN db' = Envs /\ \A e \in Envs : DOMAIN db'[e] = Names
      /\ db'[Dest][name] = x
      /\ \A e \in Envs, m \in Names : e # Dest \/ m # name => db'[e][m] = db[e][m]
  <2>1. DOMAIN db = Envs /\ \A d \in Envs : DOMAIN db[d] = Names
    BY DEF IInv, Shape
  <2> QED
    BY <1>1, <1>2, <1>4, <2>1
<1>6. \A e \in Envs, m \in Names :
          /\ db'[e][m] \in EntitiesOf(m) \cup {Absent}
          /\ db[e][m] # Absent => db'[e][m] # Absent
  BY <1>3, <1>5 DEF IInv, Shape
<1>7. \A m \in Names :
          /\ db'[Src][m] # Absent => db[Src][m] # Absent
          /\ db[Src][m] # Absent => KeyPairOf(db'[Src][m]) = KeyPairOf(db[Src][m])
  BY <1>1, <1>2, <1>3, <1>5
<1>8. \A c \in job.batch : c.key \in Names
  BY BatchFacts DEF IInv
<1>9. Fetched'
  BY <1>2, <1>6, <1>7, <1>8 DEF IInv, Fetched
<1>10. Written'
  <2> SUFFICES ASSUME job'.phase = "rotating", NEW c \in job.batch, c \notin job.left \/ c = b,
                      c.key[1] = NodeId
               PROVE  /\ db'[Dest][c.key] # Absent
                      /\ CipherOf(db'[Dest][c.key]) = NewCipher
                      /\ KeyPairOf(db'[Dest][c.key]) = KeyPairOf(c)
    BY <1>2 DEF Written
  <2>1. CASE c.key = name
    <3>1. KeyPairOf(c) = KeyPairOf(b)
      BY <1>1, <2>1 DEF IInv, Fetched
    <3> QED
      BY <1>3, <1>5, <2>1, <3>1
  <2>2. CASE c.key # name
    <3>1. c \notin job.left /\ db'[Dest][c.key] = db[Dest][c.key]
      BY <1>2, <1>5, <1>8, <2>2 DEF name
    <3> QED
      BY <3>1 DEF IInv, Written
  <2> QED
    BY <2>1, <2>2
<1>11. OldReadable'
  <2>1. Unspoilt' => Unspoilt /\ (Dest # Src \/ OldCipher = NewCipher)
    BY <1>2 DEF Unspoilt, IInv, Shape
  <2> QED
    BY <1>2, <1>3, <1>5, <1>7, <2>1 DEF IInv, OldReadable
<1>12. Origin'
  BY <1>1, <1>2, <1>3, <1>5, <1>6, <1>7 DEF IInv, Origin
<1>13. Given'
  <2> SUFFICES ASSUME NEW e \in Envs, NEW m \in Names, NEW pk \in given[e][m]
               PROVE  /\ db'[e][m] # Absent
                      /\ \/ pk = PublicKey(KeyPairOf(db'[e][m]))
                         \/ /\ e = NewEnv /\ Dest = NewEnv /\ pk.public_key_of.env = NewEnv
                            /\ db'[Src][m] # Absent
                            /\ KeyPairOf(db'[NewEnv][m]) = KeyPairOf(db'[Src][m])
    BY <1>2 DEF Given
  <2>1. /\ db[e][m] # Absent
        /\ \/ pk = PublicKey(KeyPairOf(db[e][m]))
           \/ /\ e = NewEnv /\ Dest = NewEnv /\ pk.public_key_of.env = NewEnv
              /\ db[Src][m] # Absent
              /\ KeyPairOf(db[NewEnv][m]) = KeyPairOf(db[Src][m])
    BY DEF IInv, Given
  <2>2. CASE e = Dest /\ m = name
    <3>1. KeyPairOf(db'[e][m]) = KeyPairOf(db[Src][m])
      BY <1>1, <1>3, <1>5, <2>2
    <3>2. CASE e = Src
      BY <1>2, <1>6, <2>1, <2>2, <3>1, <3>2
    <3>3. CASE e = NewEnv
      <4>1. \/ KeyPairOf(db[NewEnv][m]).env = NewEnv
            \/ KeyPairOf(db[NewEnv][m]) = KeyPairOf(db[Src][m])
        BY <2>1, <3>3 DEF IInv, Origin
      <4>2. \A k : PublicKey(k).public_key_of = k
        BY DEF PublicKey
      <4> QED
        BY <1>1, <1>2, <1>6, <1>7, <2>1, <2>2, <3>1, <3>3, <4>1, <4>2
    <3> QED
      BY <3>2, <3>3 DEF Envs
  <2>3. CASE ~ (e = Dest /\ m = name)
    <3>1. db'[e][m] = db[e][m]
      BY <1>5, <2>3
    <3> QED
      BY <1>2, <1>6, <1>7, <2>1, <3>1
  <2> QED
    BY <2>2, <2>3
<1> QED
  BY <1>5, <1>6, <1>9, <1>10, <1>11, <1>12, <1>13

\* RotateEntity as a whole.
LEMMA RotateStep ==
    ASSUME IInv, NEW b \in job.left, RotateEntity(b)
    PROVE  IInv'
<1>1. /\ job.phase = "rotating" /\ b.key[1] = NodeId /\ job \in Jobs /\ job.left \subseteq job.batch
      /\ UNCHANGED <<command, node, inserting, draws, given, foreign>>
  BY DEF RotateEntity, nodeVars, IInv, Shape
<1>2. faults' \in 0..MaxFaults
  BY RotationAssumption DEF RotateEntity, IInv, Shape
<1>3. Decrypts(OfEntity(b), OldCipher) <=> CipherOf(b) = OldCipher
  BY DEF Decrypts, CipherOf
<1>4. CASE UNCHANGED <<db, moved>> /\ job' = [job EXCEPT !.phase = "failed"]
  BY <1>1, <1>2, <1>4, JobStep
<1>5. CASE /\ ~ Decrypts(OfEntity(b), OldCipher) /\ UNCHANGED <<db, moved>>
           /\ job' = [job EXCEPT !.phase = "panicked"]
  BY <1>1, <1>2, <1>3, <1>5, JobStep
<1>6. CASE /\ Upsert(Dest, Reencrypted(OfEntity(b))) /\ moved' = TRUE
           /\ \/ job' = [job EXCEPT !.left = @ \ {b}]
              \/ job' = [job EXCEPT !.phase = "failed"]
  <2>1. /\ job' \in Jobs /\ job'.left \subseteq job'.batch /\ job'.batch = job.batch
        /\ job'.phase = "failed" \/ (job'.phase = "rotating" /\ job'.left = job.left \ {b})
    BY <1>1, <1>6 DEF Jobs, Phases
  <2>2. /\ DOMAIN db' = Envs /\ \A e \in Envs : DOMAIN db'[e] = Names
        /\ \A e \in Envs, name \in Names : db'[e][name] \in EntitiesOf(name) \cup {Absent}
        /\ Fetched' /\ Written' /\ OldReadable' /\ Origin' /\ Given'
    BY <1>1, <1>6, <2>1, RotateWrite
  <2>3. Shape'
    BY <1>1, <1>2, <1>6, <2>1, <2>2 DEF IInv, Shape
  <2> QED
    BY <2>2, <2>3 DEF IInv
<1> QED
  BY <1>4, <1>5, <1>6 DEF RotateEntity

\* A sign node starts or stops: its handlers end with it.
LEMMA NodeStep ==
    ASSUME IInv, NEW e \in Envs,
           StopSign(e) \/ \E cipher \in {Old, New} : StartSign(e, cipher)
    PROVE  IInv'
<1>1. /\ UNCHANGED <<db, command, job, draws, given, moved, foreign, faults>>
      /\ inserting' \subseteq inserting
      /\ node' \in [Envs -> {Old, New, Down}]
      /\ \A d \in Envs : d # e => node'[d] = node[d]
      /\ \A t \in inserting' : t[1] = e => node'[e] # Down
  <2>1. CASE StopSign(e)
    BY <2>1 DEF StopSign, history, IInv, Shape
  <2>2. CASE \E cipher \in {Old, New} : StartSign(e, cipher)
    BY <2>2, RotationAssumption DEF StartSign, history, IInv, Shape
  <2> QED
    BY <2>1, <2>2
<1>2. \A t \in inserting' : node'[t[1]] # Down
  BY <1>1 DEF IInv, Shape
<1>3. Shape'
  BY <1>1, <1>2 DEF IInv, Shape
<1>4. Fetched' /\ Written'
  BY <1>1 DEF IInv, Fetched, Written, Dest, NewCipher, LoadCipherKey
<1>5. OldReadable'
  BY <1>1 DEF IInv, OldReadable, Unspoilt, Dest, OldCipher, NewCipher, LoadCipherKey
<1>6. Origin' /\ Given'
  BY <1>1 DEF IInv, Origin, Given, Dest
<1> QED
  BY <1>3, <1>4, <1>5, <1>6 DEF IInv

\* A lookup tells a client the key of the record, or starts an insert.
LEMMA LookupStep ==
    ASSUME IInv, NEW e \in Envs, NEW u \in Users, LookupUser(e, u)
    PROVE  IInv'
<1> DEFINE name == <<NodeId, u>>
           found == db[e][name]
<1>1. name \in Names
  BY DEF Names
<1>2. UNCHANGED <<db, command, job, node, draws, moved, foreign, faults>> /\ node[e] # Down
  BY DEF LookupUser
<1>3. Fetched' /\ Written'
  BY <1>2 DEF IInv, Fetched, Written, Dest, NewCipher, LoadCipherKey
<1>4. OldReadable' /\ Origin'
  BY <1>2 DEF IInv, OldReadable, Unspoilt, Dest, OldCipher, NewCipher, LoadCipherKey, Origin
<1>5. CASE found # Absent /\ Give(e, u, OfEntity(found)) /\ UNCHANGED inserting
  <2>1. OfEntity(found).public_key = PublicKey(KeyPairOf(found))
    BY <1>1, <1>5, EntityFacts DEF IInv, Shape
  <2>2. given' = [given EXCEPT ![e][name] = given[e][name] \cup {PublicKey(KeyPairOf(found))}]
    BY <1>5, <2>1 DEF Give
  <2>3. DOMAIN given = Envs /\ \A d \in Envs : DOMAIN given[d] = Names
    BY DEF IInv, Shape
  <2>4. /\ DOMAIN given' = Envs /\ \A d \in Envs : DOMAIN given'[d] = Names
        /\ \A d \in Envs, m \in Names : \A pk \in given'[d][m] :
              pk \in given[d][m] \/ (d = e /\ m = name /\ pk = PublicKey(KeyPairOf(found)))
    BY <1>1, <2>2, <2>3
  <2>5. Shape'
    BY <1>2, <1>5, <2>4 DEF IInv, Shape
  <2>6. Given'
    BY <1>2, <1>5, <2>4 DEF IInv, Given, Dest
  <2> QED
    BY <1>3, <1>4, <2>5, <2>6 DEF IInv
<1>6. CASE found = Absent /\ inserting' = inserting \cup {<<e, u>>} /\ UNCHANGED given
  <2>1. Shape'
    BY <1>2, <1>6 DEF IInv, Shape
  <2>2. Given'
    BY <1>2, <1>6 DEF IInv, Given, Dest
  <2> QED
    BY <1>3, <1>4, <2>1, <2>2 DEF IInv
<1> QED
  BY <1>5, <1>6 DEF LookupUser

\* An insert writes where nothing was; nobody knew a key of that user there.
LEMMA InsertStep ==
    ASSUME IInv, NEW e \in Envs, NEW u \in Users, InsertUser(e, u)
    PROVE  IInv'
<1> DEFINE name == <<NodeId, u>>
           k == KeyPair(NodeId, e, u, draws + 1)
           cred == Credentials(NodeId, u, node[e], k)
           x == Stored(name, node[e], k)
<1>1. /\ <<e, u>> \in inserting /\ draws' \in 0..MaxDraws /\ draws + 1 \in 0..MaxDraws
      /\ inserting' \subseteq inserting /\ name \in Names
      /\ UNCHANGED <<command, job, node, moved>> /\ faults' \in 0..MaxFaults
  BY RotationAssumption DEF InsertUser, IInv, Shape, Names
<1>2. node[e] \in {Old, New}
  BY <1>1 DEF IInv, Shape
<1>3. /\ Src \in Envs /\ NewEnv \in Envs /\ Src # NewEnv /\ OldCipher = Old
      /\ Dest \in Envs /\ Dest' = Dest /\ OldCipher' = OldCipher /\ NewCipher' = NewCipher
  BY <1>1, CommandFacts DEF IInv, Dest, OldCipher, NewCipher, LoadCipherKey
<1>4. k \in KeyPairs /\ k.env = e
  BY <1>1 DEF KeyPair, KeyPairs
<1> HIDE DEF k
<1>5. x \in EntitiesOf(name) /\ x = ToEntity(cred)
  BY <1>2, <1>4 DEF EntitiesOf, CiphersOf, Stored
<1>6. /\ x # Absent /\ CipherOf(x) = node[e] /\ KeyPairOf(x) = k
      /\ CredentialsName(cred) = name /\ cred.public_key = PublicKey(k)
  BY <1>1, <1>5, EntityFacts, StoredFacts DEF CredentialsName, Credentials
<1>7. \A c \in job.batch : c.key \in Names
  BY BatchFacts DEF IInv
<1>8. CASE UNCHANGED <<db, given, foreign>>
  <2>1. Shape'
    BY <1>1, <1>8 DEF IInv, Shape
  <2>2. Fetched' /\ Written' /\ OldReadable'
    BY <1>1, <1>3, <1>8 DEF IInv, Fetched, Written, OldReadable, Unspoilt
  <2>3. Origin' /\ Given'
    BY <1>3, <1>8 DEF IInv, Origin, Given
  <2> QED
    BY <2>1, <2>2, <2>3 DEF IInv
<1>9. CASE /\ db[e][name] = Absent
           /\ db' = [db EXCEPT ![e][CredentialsName(cred)] = ToEntity(cred)]
           /\ Give(e, u, cred) \/ UNCHANGED given
           /\ foreign' = (foreign \/ (e = Src /\ node[e] # OldCipher))
  <2>1. /\ db' = [db EXCEPT ![e][name] = x]
        /\ \/ given' = [given EXCEPT ![e][name] = given[e][name] \cup {PublicKey(k)}]
           \/ given' = given
    BY <1>5, <1>6, <1>9 DEF Give
  <2>2. /\ DOMAIN db = Envs /\ \A d \in Envs : DOMAIN db[d] = Names
        /\ DOMAIN given = Envs /\ \A d \in Envs : DOMAIN given[d] = Names
    BY DEF IInv, Shape
  <2> HIDE DEF x, cred
  <2>3. /\ DOMAIN db' = Envs /\ \A d \in Envs : DOMAIN db'[d] = Names
        /\ db'[e][name] = x
        /\ \A d \in Envs, m \in Names : d # e \/ m # name => db'[d][m] = db[d][m]
    BY <1>1, <2>1, <2>2
  <2>4. /\ DOMAIN given' = Envs /\ \A d \in Envs : DOMAIN given'[d] = Names
        /\ \A d \in Envs, m \in Names : \A pk \in given'[d][m] :
              pk \in given[d][m] \/ (d = e /\ m = name /\ pk = PublicKey(k))
    BY <1>1, <2>1, <2>2
  <2> HIDE DEF name
  <2>5. \A d \in Envs, m \in Names : db[d][m] # Absent => db'[d][m] = db[d][m]
    BY <1>9, <2>3
  <2>6. Shape'
    <3>1. \A d \in Envs, m \in Names : db'[d][m] \in EntitiesOf(m) \cup {Absent}
      BY <1>5, <2>3 DEF IInv, Shape
    <3>2. foreign' \in BOOLEAN
      BY <1>9 DEF IInv, Shape
    <3>3. \A t \in inserting' : node'[t[1]] # Down
      BY <1>1 DEF IInv, Shape
    <3> QED
      BY <1>1, <2>3, <2>4, <3>1, <3>2, <3>3 DEF IInv, Shape
  <2>7. Fetched' /\ Written'
    BY <1>1, <1>3, <1>7, <2>5 DEF IInv, Fetched, Written
  <2>8. OldReadable'
    <3>1. Unspoilt' => Unspoilt /\ (e = Src => node[e] = OldCipher)
      BY <1>1, <1>3, <1>9 DEF Unspoilt
    <3> QED
      BY <1>1, <1>3, <1>6, <2>3, <2>5, <3>1 DEF IInv, OldReadable
  <2>9. Origin'
    BY <1>3, <1>4, <1>6, <2>3, <2>5 DEF IInv, Origin
  <2>10. Given'
    BY <1>3, <1>6, <2>3, <2>4, <2>5 DEF IInv, Given
  <2> QED
    BY <2>6, <2>7, <2>8, <2>9, <2>10 DEF IInv
<1> QED
  BY <1>8, <1>9 DEF InsertUser, Insert, k

\* Every step, or none.
LEMMA NextIInv == IInv /\ [Next]_vars => IInv'
<1> SUFFICES ASSUME IInv, [Next]_vars PROVE IInv'
  OBVIOUS
<1>1. CASE UNCHANGED vars
  <2>1. Shape'
    BY <1>1 DEF vars, IInv, Shape
  <2>2. Fetched' /\ Written' /\ OldReadable'
    BY <1>1 DEF vars, IInv, Fetched, Written, OldReadable, Unspoilt, Dest, OldCipher, NewCipher,
                LoadCipherKey
  <2>3. Origin' /\ Given'
    BY <1>1 DEF vars, IInv, Origin, Given, Dest
  <2> QED
    BY <2>1, <2>2, <2>3 DEF IInv
<1>2. CASE FetchEntities
  BY <1>2, FetchStep
<1>3. CASE Finish \/ CrashJob \/ \E b \in job.left : SkipEntity(b)
  <2>1. /\ UNCHANGED <<db, command, node, inserting, draws, given, moved, foreign>>
        /\ job.phase = "rotating" /\ faults' \in 0..MaxFaults
        /\ \E b : \/ b \in job.left /\ b.key[1] # NodeId /\ job' = [job EXCEPT !.left = @ \ {b}]
                  \/ job.left = {} /\ job' = [job EXCEPT !.phase = "ok"]
                  \/ job' = [job EXCEPT !.phase = "failed"]
    BY <1>3, RotationAssumption
       DEF Finish, CrashJob, SkipEntity, nodeVars, history, IInv, Shape
  <2> QED
    BY <2>1, JobStep
<1>4. CASE \E b \in job.left : RotateEntity(b)
  BY <1>4, RotateStep
<1>5. CASE \E e \in Envs : StopSign(e) \/ \E cipher \in {Old, New} : StartSign(e, cipher)
  BY <1>5, NodeStep
<1>6. CASE \E e \in Envs, u \in Users : LookupUser(e, u) \/ InsertUser(e, u)
  BY <1>6, LookupStep, InsertStep
<1> QED
  BY <1>1, <1>2, <1>3, <1>4, <1>5, <1>6 DEF Next

-----------------------------------------------------------------------------
(* What the invariant says.                                                 *)

\* Whatever the Datastore holds reads back as a well-formed record under its
\* own name.
THEOREM RecordsWellFormed == Spec => []TypeOK
<1>1. IInv => TypeOK
  <2> SUFFICES ASSUME IInv PROVE TypeOK
    OBVIOUS
  <2>1. ASSUME NEW e \in Envs, NEW name \in Names, db[e][name] # Absent
        PROVE  /\ db[e][name] = ToEntity(Cred(e, name))
               /\ CredentialsName(Cred(e, name)) = name
               /\ Cred(e, name).encrypted_key_pair.cipher \in Ciphers
               /\ DecryptKeyPair(Cred(e, name)) \in KeyPairs
    <3>1. db[e][name] \in EntitiesOf(name)
      BY <2>1 DEF IInv, Shape
    <3> QED
      BY <3>1, EntityFacts DEF Cred, CipherOf, KeyPairOf, CiphersOf, Ciphers
  <2>2. \A b \in job.batch : b.key \in Names
    BY BatchFacts DEF IInv
  <2>3. job.phase \in Phases /\ job.runs \in 0..MaxRuns
    BY DEF IInv, Shape, Jobs
  <2> QED
    BY <2>1, <2>2, <2>3 DEF TypeOK, IInv, Shape, Phases
<1> QED
  BY <1>1, InitIInv, NextIInv, PTL DEF Spec

\* Whatever is interrupted, repeated or done at the same time, the key pair of
\* every public key that clients know is kept, but for a key the new
\* environment's node drew before the user's record arrived.
THEOREM NoKeyLost == Spec => []KeyKept
<1>1. IInv => KeyKept
  <2> SUFFICES ASSUME IInv, NEW e \in Envs, NEW name \in Names, NEW pk \in given[e][name]
               PROVE  \/ Recovers(e, name, pk)
                      \/ /\ e = NewEnv /\ Dest = NewEnv /\ pk.public_key_of.env = NewEnv
                         /\ db[Src][name] # Absent
                         /\ Recovers(e, name, Cred(Src, name).public_key)
    BY DEF KeyKept
  <2>1. ASSUME NEW d \in Envs, db[d][name] # Absent
        PROVE  /\ Cred(d, name).public_key = PublicKey(KeyPairOf(db[d][name]))
               /\ Cred(d, name).encrypted_key_pair.cipher \in CiphersOf(name)
               /\ DecryptKeyPair(Cred(d, name)) = KeyPairOf(db[d][name])
    <3>1. db[d][name] \in EntitiesOf(name)
      BY <2>1 DEF IInv, Shape
    <3> QED
      BY <3>1, EntityFacts DEF Cred, CipherOf, KeyPairOf
  <2>2. Src \in Envs
    BY DEF Envs
  <2> QED
    BY <2>1, <2>2 DEF IInv, Given, Recovers, CiphersOf
<1> QED
  BY <1>1, InitIInv, NextIInv, PTL DEF Spec

\* What a run that ended well has rotated is readable with the new cipher and
\* has the key pair it has in Src, from then on.
THEOREM RotationTakesEffect == Spec => []RotatedIsReadable
<1>1. IInv => RotatedIsReadable
  <2> SUFFICES ASSUME IInv, job.phase = "ok", NEW b \in job.batch, b.key[1] = NodeId
               PROVE  /\ db[Dest][b.key] # Absent
                      /\ Decrypts(Cred(Dest, b.key), NewCipher)
                      /\ DecryptKeyPair(Cred(Dest, b.key)) = DecryptKeyPair(OfEntity(b))
                      /\ DecryptKeyPair(Cred(Src, b.key)) = DecryptKeyPair(OfEntity(b))
    BY DEF RotatedIsReadable
  <2> QED
    BY DEF IInv, Shape, Fetched, Written, Cred, Decrypts, CipherOf, KeyPairOf
<1> QED
  BY <1>1, InitIInv, NextIInv, PTL DEF Spec

\* A rotation that failed can be run again, unless it was in place and had
\* rotated a record, or a node with another cipher wrote to Src.
THEOREM RotationRepeats == Spec => []RunsAgain
<1>1. IInv => RunsAgain
  BY DEF IInv, OldReadable, Unspoilt, RunsAgain, Shape
<1> QED
  BY <1>1, InitIInv, NextIInv, PTL DEF Spec

=============================================================================
