------------------------ MODULE RunningStateProofs ------------------------
EXTENDS RunningState, FiniteSetTheorems, SequenceTheorems, TLAPS

-----------------------------------------------------------------------------
(* Sequences.                                                               *)

\* Every position of a selection is one of the positions selected, and the
\* order is kept.
LEMMA SelectAt ==
    ASSUME NEW S, NEW f \in Seq(S), NEW I \in SUBSET DOMAIN f
    PROVE  /\ Select(f, I) \in Seq(S)
           /\ Cardinality(I) \in Nat /\ Len(Select(f, I)) = Cardinality(I)
           /\ \E at \in Bijection(1..Cardinality(I), I) :
                \A k \in 1..Cardinality(I) : Select(f, I)[k] = f[at[k]]
<1> DEFINE rank == [i \in I |-> Cardinality({j \in I : j <= i})]
           at == [k \in 1..Cardinality(I) |-> CHOOSE i \in I : rank[i] = k]
<1>1. I \subseteq Nat /\ IsFiniteSet(I) /\ Cardinality(I) \in Nat
  <2>1. DOMAIN f = 1..Len(f) /\ Len(f) \in Nat
    BY LenProperties
  <2>2. IsFiniteSet(1..Len(f))
    BY <2>1, FS_Interval
  <2> QED
    BY <2>1, <2>2, FS_Subset, FS_CardinalityType
<1>2. Select(f, I) = [k \in 1..Cardinality(I) |-> f[at[k]]]
  BY DEF Select
<1>3. \A i \in I : rank[i] \in 1..Cardinality(I)
  <2> SUFFICES ASSUME NEW i \in I PROVE rank[i] \in 1..Cardinality(I)
    OBVIOUS
  <2> DEFINE B == {j \in I : j <= i}
  <2>1. B \in SUBSET I /\ i \in B /\ rank[i] = Cardinality(B)
    BY <1>1
  <2> HIDE DEF B, rank
  <2>2. IsFiniteSet(B) /\ Cardinality(B) <= Cardinality(I) /\ Cardinality(B) \in Nat
    BY <1>1, <2>1, FS_Subset, FS_CardinalityType
  <2>3. Cardinality(B) # 0
    BY <2>1, <2>2, FS_EmptySet
  <2> QED
    BY <1>1, <2>1, <2>2, <2>3
<1>4. \A i, j \in I : rank[i] = rank[j] => i = j
  <2>1. ASSUME NEW i \in I, NEW j \in I, i < j
        PROVE  rank[i] # rank[j]
    <3> DEFINE B == {m \in I : m <= i}
               D == {m \in I : m <= j}
    <3>1. /\ B \in SUBSET D /\ D \in SUBSET I /\ j \in D /\ j \notin B
          /\ rank[i] = Cardinality(B) /\ rank[j] = Cardinality(D)
      BY <1>1, <2>1
    <3> HIDE DEF B, D, rank
    <3> QED
      BY <1>1, <3>1, FS_Subset
  <2> HIDE DEF rank
  <2> QED
    BY <1>1, <2>1
<1> HIDE DEF rank
<1>5. rank \in Injection(I, 1..Cardinality(I))
  <2>1. DOMAIN rank = I /\ rank = [i \in I |-> rank[i]]
    BY DEF rank
  <2> QED
    BY <1>3, <1>4, <2>1 DEF Injection, IsInjective
<1>6. IsFiniteSet(1..Cardinality(I)) /\ Cardinality(1..Cardinality(I)) = Cardinality(I)
  BY <1>1, FS_Interval
<1>7. rank \in Surjection(I, 1..Cardinality(I))
  BY <1>5, <1>6, FS_Injection
<1>8. \A k \in 1..Cardinality(I) : \E i \in I : rank[i] = k
  BY <1>7 DEF Surjection
<1>9. \A k \in 1..Cardinality(I) : at[k] \in I /\ rank[at[k]] = k
  BY <1>8
<1>10. at \in Injection(1..Cardinality(I), I)
  BY <1>9 DEF Injection, IsInjective
<1>11. at \in Bijection(1..Cardinality(I), I)
  BY <1>1, <1>6, <1>10, FS_Injection DEF Bijection
<1>12. \A k \in 1..Cardinality(I) : f[at[k]] \in S
  BY <1>9, LenProperties
<1>13. Select(f, I) \in Seq(S) /\ Len(Select(f, I)) = Cardinality(I)
  <2> DEFINE g == [k \in 1..Cardinality(I) |-> f[at[k]]]
  <2>1. g \in [1..Cardinality(I) -> S]
    BY <1>12
  <2> HIDE DEF g
  <2>2. g \in Seq(S) /\ Len(g) = Cardinality(I)
    BY <1>1, <2>1
  <2> QED
    BY <1>2, <2>2 DEF g
<1> QED
  BY <1>1, <1>11, <1>2, <1>13

\* Dividing the positions of M rows of L places into rows and places.
LEMMA Places ==
    ASSUME NEW M \in Nat, NEW L \in Nat, NEW i \in 1..(M * L)
    PROVE  /\ L > 0
           /\ ((i - 1) % L) + 1 \in 1..L
           /\ ((i - 1) \div L) + 1 \in 1..M
           /\ i = L * ((i - 1) \div L) + ((i - 1) % L) + 1
<1>1. L > 0
  OBVIOUS
<1> DEFINE d == (i - 1) \div L
           m == (i - 1) % L
<1>2. i - 1 = L * d + m /\ m \in 0..(L - 1) /\ d \in Int
  BY <1>1
<1> HIDE DEF d, m
<1>3. d >= 0
  BY <1>1, <1>2
<1>4. d < M
  BY <1>1, <1>2
<1> QED
  BY <1>1, <1>2, <1>3, <1>4 DEF d, m

\* SetToSeq lists every element of a finite set once.
LEMMA SetToSeqLists ==
    ASSUME NEW Q, IsFiniteSet(Q)
    PROVE  /\ Cardinality(Q) \in Nat
           /\ SetToSeq(Q) \in Injection(1..Cardinality(Q), Q)
           /\ SetToSeq(Q) \in Seq(Q) /\ Len(SetToSeq(Q)) = Cardinality(Q)
<1>1. Cardinality(Q) \in Nat /\ ExistsBijection(1..Cardinality(Q), Q)
  BY FS_CardinalityType
<1>2. \E f \in [1..Cardinality(Q) -> Q] : IsInjective(f)
  BY <1>1 DEF ExistsBijection, Bijection, Injection
<1>3. SetToSeq(Q) \in [1..Cardinality(Q) -> Q] /\ IsInjective(SetToSeq(Q))
  BY <1>2 DEF SetToSeq
<1> QED
  BY <1>1, <1>3 DEF Injection

\* SendMany sends messages of its list to members of Q, and the same message
\* to the same member once.
LEMMA SendManyAt ==
    ASSUME NEW S, NEW msgs \in Seq(S), NEW Q, IsFiniteSet(Q)
    PROVE  /\ SendMany(msgs, Q) \in Seq([to : Q, msg : S])
           /\ \E row \in [1..Len(SendMany(msgs, Q)) -> 1..Len(msgs)] :
                \A i, j \in 1..Len(SendMany(msgs, Q)) :
                    /\ SendMany(msgs, Q)[i].msg = msgs[row[i]]
                    /\ SendMany(msgs, Q)[i].to = SendMany(msgs, Q)[j].to /\ row[i] = row[j]
                         => i = j
<1> DEFINE to == SetToSeq(Q)
           M == Len(msgs)
           L == Len(to)
           place == [i \in 1..(M * L) |-> ((i - 1) % L) + 1]
           row == [i \in 1..(M * L) |-> ((i - 1) \div L) + 1]
           all == [i \in 1..(M * L) |-> [to |-> to[place[i]], msg |-> msgs[row[i]]]]
<1>1. M \in Nat /\ L \in Nat /\ M * L \in Nat /\ to \in Injection(1..L, Q)
  BY SetToSeqLists, LenProperties
<1>2. /\ \A i \in 1..(M * L) : place[i] \in 1..L /\ row[i] \in 1..M
      /\ \A i, j \in 1..(M * L) : place[i] = place[j] /\ row[i] = row[j] => i = j
  <2> HIDE DEF M, L
  <2>1. \A i \in 1..(M * L) : /\ place[i] \in 1..L /\ row[i] \in 1..M
                              /\ i = L * (row[i] - 1) + place[i]
    <3> SUFFICES ASSUME NEW i \in 1..(M * L)
                 PROVE  /\ place[i] \in 1..L /\ row[i] \in 1..M
                        /\ i = L * (row[i] - 1) + place[i]
      OBVIOUS
    <3> DEFINE d == (i - 1) \div L
               m == (i - 1) % L
    <3>1. place[i] = m + 1 /\ row[i] = d + 1
      OBVIOUS
    <3>2. m + 1 \in 1..L /\ d + 1 \in 1..M /\ i = L * d + m + 1 /\ d \in Int /\ m \in Int
      BY <1>1, Places
    <3> HIDE DEF place, row, d, m
    <3>3. row[i] - 1 = d
      BY <3>1, <3>2
    <3>4. L * (row[i] - 1) + place[i] = L * d + m + 1
      BY <1>1, <3>1, <3>2, <3>3
    <3> QED
      BY <3>1, <3>2, <3>4
  <2> HIDE DEF place, row
  <2> QED
    BY <2>1
<1>3. SendMany(msgs, Q) = all
  BY DEF SendMany
<1> HIDE DEF to, M, L, place
<1>4. row \in [1..(M * L) -> 1..M]
  BY <1>2
<1> HIDE DEF row
<1>5. \A i \in 1..(M * L) : to[place[i]] \in Q /\ msgs[row[i]] \in S
  <2>1. to \in [1..L -> Q] /\ msgs \in [1..M -> S]
    BY <1>1, LenProperties DEF Injection, M
  <2> QED
    BY <1>2, <2>1
<1>6. all \in Seq([to : Q, msg : S]) /\ Len(all) = M * L
  <2>1. all \in [1..(M * L) -> [to : Q, msg : S]]
    BY <1>5
  <2> DEFINE N == M * L
             R == [to : Q, msg : S]
  <2>2. N \in Nat /\ all \in [1..N -> R]
    BY <1>1, <2>1
  <2> HIDE DEF all, N, R
  <2>3. all \in Seq(R) /\ Len(all) = N
    BY <2>2
  <2> QED
    BY <2>3 DEF N, R
<1>7. \A i, j \in 1..(M * L) : all[i].to = all[j].to /\ row[i] = row[j] => i = j
  BY <1>1, <1>2 DEF Injection, IsInjective
<1>8. \A i \in 1..(M * L) : all[i].msg = msgs[row[i]]
  OBVIOUS
<1> HIDE DEF all
<1> QED
  BY <1>3, <1>4, <1>6, <1>7, <1>8 DEF M

-----------------------------------------------------------------------------
(* The managers are records: what each step changes, and leaves alone.      *)

Fields == {"me", "triples", "generators", "mine", "bins", "presignatures", "pgenerators",
           "pmine", "pbins", "sgenerators", "sbins", "signatures", "run", "used", "panicked"}

SameBut(d, s, F) == DOMAIN d = Fields /\ \A x \in Fields \ F : d[x] = s[x]

\* The messages the channel has, and their ids.
Arrived(a) == UNION {ToSet(a[q]) : q \in Nodes}
ArrivedIds(a, kind) == {m.id : m \in {x \in Arrived(a) : x.kind = kind}}
BinOf(a, t, q) ==
    Select(a[q], {i \in DOMAIN a[q] : a[q][i].kind = "triple" /\ a[q][i].id = t})

\* d is s after Push: what has arrived is added to the bins of its kind.
Pushed(d, s, a) ==
    /\ SameBut(d, s, {"bins", "pbins", "sbins"})
    /\ d.bins =
         [t \in DOMAIN s.bins \cup ArrivedIds(a, "triple") |-> [q \in Nodes |->
            IF t \in DOMAIN s.bins THEN s.bins[t][q] \o BinOf(a, t, q) ELSE BinOf(a, t, q)]]
    /\ d.pbins =
         [p \in DOMAIN s.pbins \cup ArrivedIds(a, "presig") |->
            (IF p \in DOMAIN s.pbins THEN s.pbins[p] ELSE {})
              \cup {m \in Arrived(a) : m.kind = "presig" /\ m.id = p}]
    /\ d.sbins =
         [p \in DOMAIN s.sbins \cup ArrivedIds(a, "sign") |->
            (IF p \in DOMAIN s.sbins THEN s.sbins[p] ELSE {})
              \cup {m \in Arrived(a) : m.kind = "sign" /\ m.id = p}]

\* Push does that, and changes no other field.
LEMMA PushFields ==
    ASSUME NEW s, DOMAIN s = Fields, NEW a
    PROVE  Pushed(Push(s, a), s, a)
  BY DEF Push, Pushed, SameBut, Fields, Arrived, ArrivedIds, BinOf

\* d is s after Generate: a run of t is started.
Generated(d, s, t) ==
    /\ SameBut(d, s, {"generators", "run"})
    /\ d.generators = With(s.generators, {t}, NewTripleProtocol(s.me))
    /\ d.run = [s.run EXCEPT ![t] = @ + 1]

\* Generate does that, and changes no other field.
LEMMA GenerateFields ==
    ASSUME NEW s, DOMAIN s = Fields, NEW t
    PROVE  Generated(Generate(s, t), s, t)
  BY DEF Generate, Generated, SameBut, Fields

\* The positions of the triples that return and are the node's own.
OwnTriples(s, order, own) ==
    {i \in DOMAIN order :
        order[i] \in Returned(s) /\ own[<<order[i], s.run[order[i]]>>] = s.me}

\* d is s after Poke: what returned is among the triples.
Poked(d, s, order, own) ==
    /\ SameBut(d, s, {"mine", "triples", "generators"})
    /\ d.triples = [t \in DOMAIN s.triples \cup Returned(s) |->
                      IF t \in Returned(s) THEN RunsIn(s, t) ELSE s.triples[t]]
    /\ d.generators = [t \in DOMAIN s.generators \ Returned(s) |->
                         [s.generators[t] EXCEPT !.sent = SentBy(s.generators[t])]]
    /\ d.mine = s.mine \o Select(order, OwnTriples(s, order, own))

\* Poke does that, and changes no other field.
LEMMA PokeFields ==
    ASSUME NEW s, DOMAIN s = Fields, NEW order, NEW own
    PROVE  Poked(Poke(s, order, own), s, order, own)
  BY DEF Poke, Poked, SameBut, Fields, OwnTriples

\* d is s after PresigGenerate: two ids are popped and, if both triples are
\* there and are two, they are taken for p.
Gone(d, s) ==
    /\ SameBut(d, s, {"mine"})
    /\ d.mine = SubSeq(s.mine, 3, Len(s.mine))
Panicked(d, s) ==
    /\ SameBut(d, s, {"panicked"})
    /\ d.panicked = TRUE
Taken(d, s, p) ==
    /\ HasTwo(s, s.mine[1], s.mine[2]) /\ s.mine[1] # s.mine[2]
    /\ SameBut(d, s, {"mine", "triples", "used", "pgenerators"})
    /\ d.mine = SubSeq(s.mine, 3, Len(s.mine))
    /\ d.triples = Without(s.triples, {s.mine[1], s.mine[2]})
    /\ d.used = s.used \cup Uses(s, p, {s.mine[1], s.mine[2]})
    /\ d.pgenerators =
         With(s.pgenerators, {p}, NewPresigProtocol(s.mine[1], s.mine[2], TRUE))

\* PresigGenerate does that, and changes no other field.
LEMMA PresigGenerateFields ==
    ASSUME NEW s, DOMAIN s = Fields, NEW p
    PROVE  LET d == PresigGenerate(s, p)
           IN Gone(d, s) \/ Panicked(d, s) \/ Taken(d, s, p)
<1> DEFINE t0 == s.mine[1]
           t1 == s.mine[2]
<1>1. CASE ~ HasTwo(s, t0, t1)
  BY <1>1 DEF PresigGenerate, Gone, SameBut, Fields
<1>2. CASE HasTwo(s, t0, t1) /\ t0 = t1
  BY <1>2 DEF PresigGenerate, Panicked, SameBut, Fields
<1>3. CASE HasTwo(s, t0, t1) /\ t0 # t1
  <2> DEFINE e == [s EXCEPT !.mine = SubSeq(@, 3, Len(@))]
             g == TakeTwo(e, p, t0, t1)
             h == [g EXCEPT !.pgenerators = With(@, {p}, NewPresigProtocol(t0, t1, TRUE))]
  <2>1. SameBut(e, s, {"mine"}) /\ e.mine = SubSeq(s.mine, 3, Len(s.mine))
    BY DEF SameBut, Fields
  <2>2. Uses(e, p, {t0, t1}) = Uses(s, p, {t0, t1}) /\ e.triples = s.triples /\ e.used = s.used
    BY DEF Uses, Fields
  <2>3. PresigGenerate(s, p) = h
    BY <1>3 DEF PresigGenerate
  <2> HIDE DEF e
  <2>4. /\ SameBut(g, e, {"triples", "used"})
        /\ g.triples = Without(e.triples, {t0, t1}) /\ g.used = e.used \cup Uses(e, p, {t0, t1})
    BY <2>1 DEF TakeTwo, SameBut, Fields
  <2> HIDE DEF g
  <2>5. /\ SameBut(h, g, {"pgenerators"})
        /\ h.pgenerators = With(g.pgenerators, {p}, NewPresigProtocol(t0, t1, TRUE))
    BY <2>4 DEF SameBut, Fields
  <2> HIDE DEF h
  <2>6. /\ SameBut(h, s, {"mine", "triples", "used", "pgenerators"})
        /\ h.mine = SubSeq(s.mine, 3, Len(s.mine))
        /\ h.triples = Without(s.triples, {t0, t1})
        /\ h.used = s.used \cup Uses(s, p, {t0, t1})
        /\ h.pgenerators = With(s.pgenerators, {p}, NewPresigProtocol(t0, t1, TRUE))
    BY <2>1, <2>2, <2>4, <2>5 DEF SameBut, Fields
  <2> QED
    BY <1>3, <2>3, <2>6 DEF Taken
<1> QED
  BY <1>1, <1>2, <1>3

\* The positions of the presignatures that return and are the node's own.
OwnPresigs(s, order) ==
    {i \in DOMAIN order :
        order[i] \in PresigReturned(s) /\ s.pgenerators[order[i]].mine}

\* d is s after PresigPoke: what returned is among the presignatures.
PresigPoked(d, s, order) ==
    /\ SameBut(d, s, {"pmine", "presignatures", "pgenerators"})
    /\ d.pmine = s.pmine \o Select(order, OwnPresigs(s, order))
    /\ d.presignatures = s.presignatures \cup PresigReturned(s)
    /\ d.pgenerators = [p \in DOMAIN s.pgenerators \ PresigReturned(s) |->
                          [s.pgenerators[p] EXCEPT !.sent = TRUE]]

\* PresigPoke does that, and changes no other field.
LEMMA PresigPokeFields ==
    ASSUME NEW s, DOMAIN s = Fields, NEW order
    PROVE  PresigPoked(PresigPoke(s, order), s, order)
  BY DEF PresigPoke, PresigPoked, SameBut, Fields, OwnPresigs

\* d is s after SignGenerate: the first k presignatures of its own are taken.
SignGenerated(d, s, k) ==
    LET P == {s.pmine[i] : i \in 1..k}
    IN /\ SameBut(d, s, {"pmine", "presignatures", "sgenerators"})
       /\ d.pmine = SubSeq(s.pmine, k + 1, Len(s.pmine))
       /\ d.presignatures = s.presignatures \ P
       /\ d.sgenerators = With(s.sgenerators, P, NewSignProtocol(s.me))

\* SignGenerate does that, and changes no other field.
LEMMA SignGenerateFields ==
    ASSUME NEW s, DOMAIN s = Fields, NEW k
    PROVE  SignGenerated(SignGenerate(s, k), s, k)
  BY DEF SignGenerate, SignGenerated, SameBut, Fields

\* d is s after SignPoke: what returned is gone.
SignPoked(d, s) ==
    /\ SameBut(d, s, {"sgenerators", "signatures"})
    /\ d.sgenerators = [p \in DOMAIN s.sgenerators \ SignReturned(s) |->
                          [s.sgenerators[p] EXCEPT !.sent = TRUE]]

\* SignPoke does that, and changes no other field.
LEMMA SignPokeFields ==
    ASSUME NEW s, DOMAIN s = Fields
    PROVE  SignPoked(SignPoke(s), s)
  BY DEF SignPoke, SignPoked, SameBut, Fields

TripleGen(s, t) == IF t \in DOMAIN s.generators THEN s.generators[t] ELSE NewTripleProtocol(s.me)
TripleBin(s, t) == IF t \in DOMAIN s.bins THEN s.bins[t] ELSE EmptyBin

\* d is s after HandleTriples: a run is started of every id that has a bin and
\* is not held, and the bins are fed to the protocols.
HandledTriples(d, s) ==
    LET live == DOMAIN s.generators \cup Joined(s)
    IN /\ SameBut(d, s, {"run", "generators", "bins"})
       /\ d.run = [t \in TripleIds |-> IF t \in Joined(s) THEN s.run[t] + 1 ELSE s.run[t]]
       /\ d.generators = [t \in live |-> Message(TripleGen(s, t), TripleBin(s, t))]
       /\ d.bins = [t \in DOMAIN s.bins |-> IF t \in live THEN EmptyBin ELSE s.bins[t]]

\* HandleTriples does that, and changes no other field.
LEMMA HandleTriplesFields ==
    ASSUME NEW s, DOMAIN s = Fields
    PROVE  HandledTriples(HandleTriples(s), s)
  BY DEF HandleTriples, HandledTriples, SameBut, Fields, TripleGen, TripleBin

PresigGen(s, J, p) ==
    IF p \in J THEN LET m == CHOOSE m \in s.pbins[p] : TRUE
                    IN NewPresigProtocol(m.triple0, m.triple1, FALSE)
    ELSE s.pgenerators[p]
Senders(bins, p) == IF p \in DOMAIN bins THEN {m.from : m \in bins[p]} ELSE {}

\* d is s after HandlePresigs: the triples of the presignatures joined are taken.
HandledPresigs(d, s, J) ==
    LET live == DOMAIN s.pgenerators \cup J
    IN /\ SameBut(d, s, {"triples", "used", "pgenerators", "pbins"})
       /\ d.triples = Without(s.triples, UNION {TriplesOf(s, p) : p \in J})
       /\ d.used = s.used \cup UNION {Uses(s, p, TriplesOf(s, p)) : p \in J}
       /\ d.pgenerators = [p \in live |-> [PresigGen(s, J, p) EXCEPT
                              !.heard = @ \cup (Senders(s.pbins, p) \ {s.me})]]
       /\ d.pbins = Leftover(s.pbins, s.presignatures \cup live)

\* HandlePresigs does that, and changes no other field.
LEMMA HandlePresigsFields ==
    ASSUME NEW s, DOMAIN s = Fields, NEW J
    PROVE  HandledPresigs(HandlePresigs(s, J), s, J)
  BY DEF HandlePresigs, HandledPresigs, SameBut, Fields, PresigGen, Senders

SignGen(s, p) ==
    IF p \in DOMAIN s.sgenerators THEN s.sgenerators[p]
    ELSE NewSignProtocol((CHOOSE m \in s.sbins[p] : TRUE).proposer)

\* d is s after HandleSigns: the presignatures of the signatures joined are taken.
HandledSigns(d, s) ==
    LET live == DOMAIN s.sgenerators \cup SignJoinable(s)
    IN /\ SameBut(d, s, {"presignatures", "sgenerators", "sbins"})
       /\ d.presignatures = s.presignatures \ SignJoinable(s)
       /\ d.sgenerators = [p \in live |-> [SignGen(s, p) EXCEPT
                              !.heard = @ \cup (Senders(s.sbins, p) \ {s.me})]]
       /\ d.sbins = Leftover(s.sbins, live)

\* HandleSigns does that, and changes no other field.
LEMMA HandleSignsFields ==
    ASSUME NEW s, DOMAIN s = Fields
    PROVE  HandledSigns(HandleSigns(s), s)
  BY DEF HandleSigns, HandledSigns, SameBut, Fields, SignGen, Senders

-----------------------------------------------------------------------------
(* What holds of the managers s of node n when b triple ids and pb           *)
(* presignature ids are drawn and prop are the presignatures taken for a     *)
(* signature.                                                               *)

Protocols(n) == [me : {n}, sent : 0..2, heard : [1..2 -> [Nodes -> 0..MaxRuns]]]
PresigProtocols(b) ==
    [triple0 : 1..b, triple1 : 1..b, mine : BOOLEAN, sent : BOOLEAN, heard : SUBSET Nodes]
SignProtocols == [proposer : Nodes, sent : BOOLEAN, heard : SUBSET Nodes]

Shaped(s, n) == DOMAIN s = Fields /\ s.me = n /\ s.run \in [TripleIds -> 0..MaxRuns]

TriplesFit(s, b) ==
    /\ DOMAIN s.triples \subseteq 1..b
    /\ DOMAIN s.generators \subseteq 1..b
    /\ DOMAIN s.bins \subseteq 1..b
    /\ DOMAIN s.triples \cap DOMAIN s.generators = {}
    /\ s.mine \in Seq(1..b)
    /\ \A t \in TripleIds : t > b => s.run[t] = 0
    /\ \A t \in DOMAIN s.generators : s.run[t] # 0 /\ s.generators[t] \in Protocols(s.me)
    /\ \A t \in DOMAIN s.bins : s.bins[t] \in [Nodes -> Seq(TripleMessage)]

\* A share that was used is of a run that is over; one that is held, or in the
\* making, is of a later run.
SpentOnce(s, b) ==
    \A u \in s.used :
        /\ u.triple \in 1..b /\ u.run \in Nat
        /\ u.run <= s.run[u.triple]
        /\ u.triple \in DOMAIN s.triples \cup DOMAIN s.generators => u.run # s.run[u.triple]
        /\ \A v \in s.used : u.triple = v.triple /\ u.run = v.run => u.presig = v.presig

PresigsFit(s, b, pb) ==
    /\ s.presignatures \subseteq 1..pb
    /\ DOMAIN s.pgenerators \subseteq 1..pb
    /\ DOMAIN s.pbins \subseteq 1..pb
    /\ s.presignatures \cap DOMAIN s.pgenerators = {}
    /\ \A p \in DOMAIN s.pgenerators : s.pgenerators[p] \in PresigProtocols(b)
    /\ \A p \in DOMAIN s.pbins : s.pbins[p] \subseteq PresigMessage

\* The presignatures a node has drawn and not yet taken for a signature.
Drawn(s) == {p \in DOMAIN s.pgenerators : s.pgenerators[p].mine} \cup ToSet(s.pmine)

MineFit(s, prop) ==
    /\ s.pmine \in Seq(s.presignatures)
    /\ IsInjective(s.pmine)
    /\ Drawn(s) \cap prop = {}

SignsFit(s, prop) ==
    /\ DOMAIN s.sgenerators \subseteq prop
    /\ DOMAIN s.sbins \subseteq prop
    /\ \A p \in DOMAIN s.sgenerators : s.sgenerators[p] \in SignProtocols
    /\ \A p \in DOMAIN s.sbins : s.sbins[p] \subseteq SignMessage

Managed(s, n, b, pb, prop) ==
    /\ Shaped(s, n)
    /\ TriplesFit(s, b) /\ SpentOnce(s, b)
    /\ PresigsFit(s, b, pb) /\ MineFit(s, prop)
    /\ SignsFit(s, prop)

\* What q may have sent.
Sent(q, b, pb, prop) ==
    {m \in MpcMessage : /\ m.from = q
                        /\ m.kind = "triple" => m.id <= b
                        /\ m.kind = "presig" => m.id <= pb
                        /\ m.kind = "sign" => m.id \in prop}

\* What the channel of a node may hold.
ArrivedFit(a, b, pb, prop) == \A q \in Nodes : a[q] \in Seq(Sent(q, b, pb, prop))

\* The bounds are numbers.
LEMMA Bounds == {MaxTriples, MaxPresigs, MaxRuns} \subseteq Nat \ {0} /\ IsFiniteSet(Nodes)
  BY RunningAssumption

\* The kind of a message tells its shape.
LEMMA KindIsShape ==
    ASSUME NEW q \in Nodes, NEW b, NEW pb, NEW prop, NEW m \in Sent(q, b, pb, prop)
    PROVE  /\ m.from = q
           /\ m.kind \in {"triple", "presig", "sign"}
           /\ m.kind = "triple" => m \in TripleMessage /\ m.id <= b
           /\ m.kind = "presig" => m \in PresigMessage /\ m.id <= pb
           /\ m.kind = "sign" => m \in SignMessage /\ m.id \in prop
  BY DEF Sent, MpcMessage, TripleMessage, PresigMessage, SignMessage

\* Messages stay what they are when more ids are drawn.
LEMMA SentGrows ==
    ASSUME NEW q, NEW b \in 0..MaxTriples, NEW pb \in 0..MaxPresigs, NEW prop,
           NEW b2 \in 0..MaxTriples, NEW pb2 \in 0..MaxPresigs, NEW prop2,
           b <= b2, pb <= pb2, prop \subseteq prop2
    PROVE  Sent(q, b, pb, prop) \subseteq Sent(q, b2, pb2, prop2)
  BY Bounds DEF Sent, MpcMessage, TripleMessage, PresigMessage, SignMessage,
                TripleIds, PresigIds

\* So do the managers, as long as nothing the node has drawn is taken.
LEMMA ManagedGrows ==
    ASSUME NEW s, NEW n \in Nodes, NEW b \in 0..MaxTriples, NEW pb \in 0..MaxPresigs, NEW prop,
           NEW b2 \in 0..MaxTriples, NEW pb2 \in 0..MaxPresigs, NEW prop2,
           b <= b2, pb <= pb2, prop \subseteq prop2, Drawn(s) \cap prop2 = {},
           Managed(s, n, b, pb, prop)
    PROVE  Managed(s, n, b2, pb2, prop2)
<1>1. 1..b \subseteq 1..b2 /\ 1..pb \subseteq 1..pb2
  BY Bounds
<1>2. TriplesFit(s, b2)
  <2>1. s.mine \in Seq(1..b2)
    BY <1>1, SeqMonotonic DEF Managed, TriplesFit
  <2>2. \A t \in TripleIds : t > b2 => s.run[t] = 0
    BY Bounds DEF Managed, TriplesFit, TripleIds
  <2> QED
    BY <1>1, <2>1, <2>2 DEF Managed, TriplesFit
<1>3. PresigsFit(s, b2, pb2)
  BY <1>1 DEF Managed, PresigsFit, PresigProtocols
<1>4. SpentOnce(s, b2)
  BY <1>1 DEF Managed, SpentOnce
<1> QED
  BY <1>2, <1>3, <1>4 DEF Managed, MineFit, SignsFit

\* The messages of the bin of a triple.
LEMMA BinOfTyped ==
    ASSUME NEW q \in Nodes, NEW b, NEW pb, NEW prop, NEW a, NEW t,
           a[q] \in Seq(Sent(q, b, pb, prop))
    PROVE  BinOf(a, t, q) \in Seq(TripleMessage)
<1> DEFINE I == {i \in DOMAIN a[q] : a[q][i].kind = "triple" /\ a[q][i].id = t}
           f == a[q]
           S == Sent(q, b, pb, prop)
<1>1. I \in SUBSET DOMAIN f /\ f \in Seq(S) /\ DOMAIN f = 1..Len(f) /\ Len(f) \in Nat
  BY LenProperties
<1>2. \A i \in I : f[i] \in TripleMessage
  BY <1>1, KindIsShape, ElementOfSeq
<1>3. BinOf(a, t, q) = Select(f, I)
  BY DEF BinOf
<1> HIDE DEF I, f, S
<1>4. /\ Select(f, I) \in Seq(S) /\ Len(Select(f, I)) = Cardinality(I) /\ Cardinality(I) \in Nat
      /\ \E at \in Bijection(1..Cardinality(I), I) :
            \A k \in 1..Cardinality(I) : Select(f, I)[k] = f[at[k]]
  BY <1>1, SelectAt
<1>5. \A k \in 1..Cardinality(I) : Select(f, I)[k] \in TripleMessage
  BY <1>2, <1>4 DEF Bijection, Injection
<1>6. Select(f, I) \in Seq(TripleMessage)
  BY <1>4, <1>5
<1> QED
  BY <1>3, <1>6

-----------------------------------------------------------------------------
(* Each step of a turn keeps that.                                          *)

\* Draining the channel.
LEMMA PushFits ==
    ASSUME NEW s, NEW d, NEW n \in Nodes, NEW b \in 0..MaxTriples, NEW pb \in 0..MaxPresigs,
           NEW prop \in SUBSET (1..pb), NEW a, Pushed(d, s, a),
           Managed(s, n, b, pb, prop), ArrivedFit(a, b, pb, prop)
    PROVE  Managed(d, n, b, pb, prop) /\ Drawn(d) = Drawn(s) /\ d.panicked = s.panicked
<1>1. MaxTriples \in Nat /\ MaxPresigs \in Nat
  BY RunningAssumption
<1>2. /\ DOMAIN d = Fields /\ d.me = s.me /\ d.run = s.run /\ d.triples = s.triples
      /\ d.generators = s.generators /\ d.mine = s.mine /\ d.used = s.used
      /\ d.presignatures = s.presignatures /\ d.pgenerators = s.pgenerators
      /\ d.pmine = s.pmine /\ d.sgenerators = s.sgenerators /\ d.panicked = s.panicked
  BY DEF Pushed, SameBut, Fields
<1>3. \A m \in Arrived(a) : \E q \in Nodes : m \in Sent(q, b, pb, prop)
  BY LenProperties, ElementOfSeq DEF Arrived, ToSet, ArrivedFit
<1>4. /\ ArrivedIds(a, "triple") \subseteq 1..b
      /\ ArrivedIds(a, "presig") \subseteq 1..pb
      /\ ArrivedIds(a, "sign") \subseteq prop
  BY <1>1, <1>3, KindIsShape
     DEF ArrivedIds, TripleMessage, PresigMessage, TripleIds, PresigIds
<1>5. /\ \A m \in Arrived(a) : m.kind = "presig" => m \in PresigMessage
      /\ \A m \in Arrived(a) : m.kind = "sign" => m \in SignMessage
  BY <1>3, KindIsShape
<1>6. Shaped(d, n) /\ SpentOnce(d, b) /\ MineFit(d, prop) /\ Drawn(d) = Drawn(s)
  BY <1>2 DEF Managed, Shaped, SpentOnce, MineFit, Drawn
<1>7. TriplesFit(d, b)
  <2>1. DOMAIN d.bins \subseteq 1..b
    BY <1>4 DEF Managed, TriplesFit, Pushed
  <2>2. \A t \in DOMAIN d.bins : d.bins[t] \in [Nodes -> Seq(TripleMessage)]
    <3> SUFFICES ASSUME NEW t \in DOMAIN d.bins
                 PROVE  d.bins[t] \in [Nodes -> Seq(TripleMessage)]
      OBVIOUS
    <3>1. \A q \in Nodes : BinOf(a, t, q) \in Seq(TripleMessage)
      BY BinOfTyped DEF ArrivedFit
    <3>2. t \in DOMAIN s.bins => \A q \in Nodes : s.bins[t][q] \in Seq(TripleMessage)
      BY DEF Managed, TriplesFit
    <3>3. t \in DOMAIN s.bins =>
            \A q \in Nodes : s.bins[t][q] \o BinOf(a, t, q) \in Seq(TripleMessage)
      BY <3>1, <3>2, ConcatProperties
    <3> QED
      BY <3>1, <3>3 DEF Pushed
  <2> QED
    BY <1>2, <2>1, <2>2 DEF Managed, TriplesFit
<1>8. PresigsFit(d, b, pb)
  BY <1>2, <1>4, <1>5 DEF Managed, PresigsFit, Pushed
<1>9. SignsFit(d, prop)
  BY <1>2, <1>4, <1>5 DEF Managed, SignsFit, Pushed
<1> QED
  BY <1>2, <1>6, <1>7, <1>8, <1>9 DEF Managed

\* Starting a triple with a new id.
LEMMA GenerateFits ==
    ASSUME NEW s, NEW d, NEW n \in Nodes, NEW b \in 0..MaxTriples, NEW pb \in 0..MaxPresigs,
           NEW prop \in SUBSET (1..pb), b < MaxTriples, NEW c, c = b + 1, Generated(d, s, c),
           Managed(s, n, b, pb, prop)
    PROVE  /\ Managed(d, n, c, pb, prop)
           /\ Drawn(d) = Drawn(s) /\ d.panicked = s.panicked
<1>1. MaxTriples \in Nat /\ MaxPresigs \in Nat /\ MaxRuns \in Nat \ {0} /\ b \in Nat
  BY Bounds
<1>2. /\ DOMAIN d = Fields /\ d.me = s.me /\ d.triples = s.triples
      /\ d.bins = s.bins /\ d.mine = s.mine /\ d.used = s.used
      /\ d.presignatures = s.presignatures /\ d.pgenerators = s.pgenerators
      /\ d.pmine = s.pmine /\ d.sgenerators = s.sgenerators /\ d.panicked = s.panicked
      /\ d.pbins = s.pbins /\ d.sbins = s.sbins
  BY DEF Generated, SameBut, Fields
<1>3. Managed(s, n, b + 1, pb, prop)
  BY <1>1, ManagedGrows DEF Managed, MineFit
<1>4. /\ b + 1 \in TripleIds /\ b + 1 \notin 1..b /\ s.run[b + 1] = 0
      /\ s.run \in [TripleIds -> 0..MaxRuns]
  BY <1>1 DEF Managed, TriplesFit, Shaped, TripleIds
<1>5. /\ d.run \in [TripleIds -> 0..MaxRuns] /\ d.run[b + 1] = 1
      /\ \A t \in TripleIds : t # b + 1 => d.run[t] = s.run[t]
  BY <1>1, <1>4 DEF Generated
<1>6. /\ DOMAIN d.generators = DOMAIN s.generators \cup {b + 1}
      /\ d.generators[b + 1] = NewTripleProtocol(n)
      /\ \A t \in DOMAIN s.generators : t # b + 1 => d.generators[t] = s.generators[t]
  BY DEF Generated, With, Managed, Shaped
<1>7. Shaped(d, n) /\ Drawn(d) = Drawn(s)
  BY <1>2, <1>5 DEF Managed, Shaped, Drawn
<1>8. TriplesFit(d, b + 1)
  <2>1. NewTripleProtocol(n) \in Protocols(n)
    BY <1>1 DEF NewTripleProtocol, Protocols
  <2>2. \A t \in TripleIds : t > b + 1 => d.run[t] = 0
    BY <1>3, <1>5 DEF Managed, TriplesFit
  <2>3. \A t \in DOMAIN d.generators : d.run[t] # 0 /\ d.generators[t] \in Protocols(n)
    <3>1. \A t \in DOMAIN s.generators : /\ t # b + 1 /\ t \in TripleIds
                                         /\ s.run[t] # 0 /\ s.generators[t] \in Protocols(n)
      BY <1>1 DEF Managed, TriplesFit, Shaped, TripleIds
    <3> QED
      BY <1>5, <1>6, <2>1, <3>1
  <2>4. DOMAIN s.triples \subseteq 1..b /\ DOMAIN d.generators \subseteq 1..(b + 1)
    BY <1>1, <1>3, <1>6 DEF Managed, TriplesFit
  <2>5. DOMAIN d.triples \cap DOMAIN d.generators = {}
    BY <1>2, <1>3, <1>4, <1>6, <2>4 DEF Managed, TriplesFit
  <2> QED
    BY <1>2, <1>3, <1>7, <2>2, <2>3, <2>4, <2>5 DEF Managed, TriplesFit, Shaped
<1>9. SpentOnce(d, b + 1)
  <2>1. \A u \in s.used : u.triple \in 1..b /\ u.triple \in TripleIds /\ u.triple # b + 1
    BY <1>1 DEF Managed, SpentOnce, TripleIds
  <2> QED
    BY <1>2, <1>3, <1>5, <1>6, <2>1 DEF Managed, SpentOnce
<1>10. PresigsFit(d, b + 1, pb) /\ MineFit(d, prop) /\ SignsFit(d, prop)
  BY <1>2, <1>3, <1>7 DEF Managed, PresigsFit, MineFit, SignsFit
<1> QED
  BY <1>2, <1>7, <1>8, <1>9, <1>10 DEF Managed

\* The order in which retain meets the generators.
LEMMA OrderLists ==
    ASSUME NEW m \in Nat, NEW D \in SUBSET (1..m), NEW order \in SetToSeqs(D)
    PROVE  /\ order \in Seq(D) /\ IsInjective(order)
           /\ DOMAIN order = 1..Len(order) /\ Len(order) = Cardinality(D) /\ Len(order) \in Nat
<1>1. IsFiniteSet(D) /\ Cardinality(D) \in Nat
  <2>1. IsFiniteSet(1..m)
    BY FS_Interval
  <2> QED
    BY <2>1, FS_Subset, FS_CardinalityType
<1>2. order \in [1..Cardinality(D) -> D]
  BY DEF SetToSeqs
<1>3. \A i, j \in 1..Cardinality(D) : i # j => order[i] # order[j]
  BY DEF SetToSeqs
<1>4. order \in Seq(D) /\ Len(order) = Cardinality(D) /\ DOMAIN order = 1..Cardinality(D)
  BY <1>1, <1>2
<1> QED
  BY <1>1, <1>3, <1>4 DEF IsInjective

\* A selection from such an order lists what is at the positions, once each.
LEMMA SelectLists ==
    ASSUME NEW m \in Nat, NEW D \in SUBSET (1..m), NEW order \in SetToSeqs(D),
           NEW I \in SUBSET DOMAIN order
    PROVE  /\ Select(order, I) \in Seq({order[i] : i \in I})
           /\ IsInjective(Select(order, I))
<1> DEFINE f == Select(order, I)
           N == Cardinality(I)
           R == {order[i] : i \in I}
<1>1. order \in Seq(D) /\ IsInjective(order)
  BY OrderLists
<1>2. /\ f \in Seq(D) /\ N \in Nat /\ Len(f) = N
      /\ \E at \in Bijection(1..N, I) : \A k \in 1..N : f[k] = order[at[k]]
  BY <1>1, SelectAt
<1>3. PICK at \in Bijection(1..N, I) : \A k \in 1..N : f[k] = order[at[k]]
  BY <1>2
<1>4. /\ \A k \in 1..N : at[k] \in I
      /\ \A k, l \in 1..N : at[k] = at[l] => k = l
  BY <1>3 DEF Bijection, Injection, IsInjective
<1>5. DOMAIN f = 1..N
  BY <1>2
<1>6. \A k \in 1..N : f[k] \in R
  BY <1>3, <1>4
<1>7. IsInjective(f)
  BY <1>1, <1>3, <1>4, <1>5 DEF IsInjective
<1> HIDE DEF f, N, R
<1>8. f \in Seq(R)
  BY <1>2, <1>5, <1>6
<1> QED
  BY <1>7, <1>8 DEF f, R

\* Poking the triples.
LEMMA PokeFits ==
    ASSUME NEW s, NEW d, NEW n \in Nodes, NEW b \in 0..MaxTriples, NEW pb \in 0..MaxPresigs,
           NEW prop \in SUBSET (1..pb), NEW order \in SetToSeqs(DOMAIN s.generators), NEW own,
           Poked(d, s, order, own), Managed(s, n, b, pb, prop)
    PROVE  Managed(d, n, b, pb, prop) /\ Drawn(d) = Drawn(s) /\ d.panicked = s.panicked
<1>1. b \in Nat
  BY Bounds
<1>2. /\ DOMAIN d = Fields /\ d.me = s.me /\ d.run = s.run
      /\ d.bins = s.bins /\ d.used = s.used
      /\ d.presignatures = s.presignatures /\ d.pgenerators = s.pgenerators
      /\ d.pmine = s.pmine /\ d.sgenerators = s.sgenerators /\ d.panicked = s.panicked
      /\ d.pbins = s.pbins /\ d.sbins = s.sbins
  BY DEF Poked, SameBut, Fields
<1>3. Returned(s) \subseteq DOMAIN s.generators /\ DOMAIN s.generators \subseteq 1..b
  BY DEF Returned, Managed, TriplesFit
<1>4. /\ DOMAIN d.triples = DOMAIN s.triples \cup Returned(s)
      /\ DOMAIN d.generators = DOMAIN s.generators \ Returned(s)
  BY DEF Poked
<1>5. d.mine \in Seq(1..b)
  <2> DEFINE I == OwnTriples(s, order, own)
  <2>1. I \in SUBSET DOMAIN order
    BY DEF OwnTriples
  <2>2. order \in Seq(DOMAIN s.generators)
    BY <1>1, <1>3, OrderLists
  <2> HIDE DEF I
  <2>3. Select(order, I) \in Seq(DOMAIN s.generators)
    BY <2>1, <2>2, SelectAt
  <2>4. Select(order, I) \in Seq(1..b) /\ s.mine \in Seq(1..b)
    BY <1>3, <2>3, SeqMonotonic DEF Managed, TriplesFit
  <2>5. s.mine \o Select(order, I) \in Seq(1..b)
    BY <2>4, ConcatProperties
  <2> QED
    BY <2>5 DEF Poked, I
<1>6. \A t \in DOMAIN d.generators : d.run[t] # 0 /\ d.generators[t] \in Protocols(d.me)
  <2> SUFFICES ASSUME NEW t \in DOMAIN d.generators
               PROVE  d.run[t] # 0 /\ d.generators[t] \in Protocols(d.me)
    OBVIOUS
  <2>1. t \in DOMAIN s.generators /\ s.run[t] # 0 /\ s.generators[t] \in Protocols(s.me)
    BY <1>4 DEF Managed, TriplesFit
  <2>2. d.generators[t] = [s.generators[t] EXCEPT !.sent = SentBy(s.generators[t])]
    BY <1>4 DEF Poked
  <2>3. SentBy(s.generators[t]) \in 0..2
    BY DEF SentBy
  <2> QED
    BY <1>2, <2>1, <2>2, <2>3 DEF Protocols
<1>7. TriplesFit(d, b)
  BY <1>2, <1>3, <1>4, <1>5, <1>6 DEF Managed, TriplesFit
<1>8. Shaped(d, n) /\ Drawn(d) = Drawn(s)
  BY <1>2 DEF Managed, Shaped, Drawn
<1>9. SpentOnce(d, b)
  BY <1>2, <1>3, <1>4 DEF Managed, SpentOnce
<1>10. PresigsFit(d, b, pb) /\ MineFit(d, prop) /\ SignsFit(d, prop)
  BY <1>2, <1>8 DEF Managed, PresigsFit, MineFit, SignsFit
<1> QED
  BY <1>2, <1>7, <1>8, <1>9, <1>10 DEF Managed

\* Popping two ids whose triples are gone, or the same id twice.
LEMMA GoneFits ==
    ASSUME NEW s, NEW d, NEW n \in Nodes, NEW b \in 0..MaxTriples, NEW pb \in 0..MaxPresigs,
           NEW prop \in SUBSET (1..pb), Gone(d, s) \/ Panicked(d, s), Len(s.mine) >= 2,
           Managed(s, n, b, pb, prop)
    PROVE  /\ Managed(d, n, b, pb, prop) /\ Drawn(d) = Drawn(s)
           /\ DOMAIN d.pgenerators = DOMAIN s.pgenerators
           /\ d.panicked = s.panicked \/ d.panicked = TRUE
           /\ d.generators = s.generators /\ d.run = s.run /\ d.bins = s.bins
<1>1. /\ DOMAIN d = Fields /\ d.me = s.me /\ d.run = s.run /\ d.triples = s.triples
      /\ d.generators = s.generators /\ d.bins = s.bins /\ d.used = s.used
      /\ d.presignatures = s.presignatures /\ d.pgenerators = s.pgenerators
      /\ d.pmine = s.pmine /\ d.sgenerators = s.sgenerators
      /\ d.pbins = s.pbins /\ d.sbins = s.sbins
      /\ d.panicked = s.panicked \/ d.panicked = TRUE
  BY DEF Gone, Panicked, SameBut, Fields
<1>2. d.mine \in Seq(1..b)
  <2>1. s.mine \in Seq(1..b)
    BY DEF Managed, TriplesFit
  <2>2. SubSeq(s.mine, 3, Len(s.mine)) \in Seq(1..b)
    BY <2>1, LenProperties, SubSeqProperties
  <2>3. d.mine = SubSeq(s.mine, 3, Len(s.mine)) \/ d.mine = s.mine
    BY DEF Gone, Panicked, SameBut, Fields
  <2> QED
    BY <2>1, <2>2, <2>3
<1>3. Drawn(d) = Drawn(s)
  BY <1>1 DEF Drawn
<1>4. TriplesFit(d, b) /\ SpentOnce(d, b)
  BY <1>1, <1>2 DEF Managed, TriplesFit, SpentOnce
<1>5. Shaped(d, n) /\ PresigsFit(d, b, pb) /\ MineFit(d, prop) /\ SignsFit(d, prop)
  BY <1>1, <1>3 DEF Managed, Shaped, PresigsFit, MineFit, SignsFit
<1> QED
  BY <1>1, <1>3, <1>4, <1>5 DEF Managed

\* Taking two triples for a presignature with a new id.
LEMMA TakenFits ==
    ASSUME NEW s, NEW d, NEW n \in Nodes, NEW b \in 0..MaxTriples, NEW pb \in 0..MaxPresigs,
           NEW prop \in SUBSET (1..pb), Len(s.mine) >= 2, pb < MaxPresigs,
           Taken(d, s, pb + 1), Managed(s, n, b, pb, prop)
    PROVE  /\ Managed(d, n, b, pb + 1, prop) /\ Drawn(d) = Drawn(s) \cup {pb + 1}
           /\ pb + 1 \in DOMAIN d.pgenerators /\ d.panicked = s.panicked
           /\ d.generators = s.generators /\ d.run = s.run /\ d.bins = s.bins
<1> DEFINE t0 == s.mine[1]
           t1 == s.mine[2]
<1>1. pb \in Nat /\ b \in Nat /\ MaxPresigs \in Nat /\ MaxTriples \in Nat /\ MaxRuns \in Nat
  BY Bounds
<1>2. /\ DOMAIN d = Fields /\ d.me = s.me /\ d.run = s.run
      /\ d.generators = s.generators /\ d.bins = s.bins
      /\ d.presignatures = s.presignatures
      /\ d.pmine = s.pmine /\ d.sgenerators = s.sgenerators
      /\ d.pbins = s.pbins /\ d.sbins = s.sbins /\ d.panicked = s.panicked
  BY DEF Taken, SameBut, Fields
<1>3. Managed(s, n, b, pb + 1, prop)
  BY <1>1, ManagedGrows DEF Managed, MineFit
<1>4. t0 \in DOMAIN s.triples /\ t1 \in DOMAIN s.triples /\ DOMAIN s.triples \subseteq 1..b
  BY DEF Taken, HasTwo, Managed, TriplesFit
<1>5. DOMAIN d.triples = DOMAIN s.triples \ {t0, t1}
  BY DEF Taken, Without
<1>6. d.mine \in Seq(1..b)
  <2>1. s.mine \in Seq(1..b)
    BY DEF Managed, TriplesFit
  <2>2. SubSeq(s.mine, 3, Len(s.mine)) \in Seq(1..b)
    BY <2>1, LenProperties, SubSeqProperties
  <2> QED
    BY <2>2 DEF Taken
<1>7. /\ pb + 1 \notin DOMAIN s.pgenerators /\ pb + 1 \notin s.presignatures
      /\ pb + 1 \notin prop
  BY <1>1 DEF Managed, PresigsFit
<1>8. /\ DOMAIN d.pgenerators = DOMAIN s.pgenerators \cup {pb + 1}
      /\ d.pgenerators[pb + 1] = NewPresigProtocol(t0, t1, TRUE)
      /\ \A p \in DOMAIN s.pgenerators : d.pgenerators[p] = s.pgenerators[p]
  BY <1>7 DEF Taken, With
<1>9. /\ NewPresigProtocol(t0, t1, TRUE) \in PresigProtocols(b)
      /\ NewPresigProtocol(t0, t1, TRUE).mine
  BY <1>4 DEF NewPresigProtocol, PresigProtocols
<1>10. Drawn(d) = Drawn(s) \cup {pb + 1}
  BY <1>2, <1>8, <1>9 DEF Drawn
<1>11. TriplesFit(d, b) /\ Shaped(d, n)
  BY <1>2, <1>5, <1>6 DEF Managed, TriplesFit, Shaped
<1>12. PresigsFit(d, b, pb + 1)
  <2>1. /\ DOMAIN d.pgenerators \subseteq 1..(pb + 1)
        /\ d.presignatures \cap DOMAIN d.pgenerators = {}
    BY <1>1, <1>2, <1>3, <1>7, <1>8 DEF Managed, PresigsFit
  <2>2. \A p \in DOMAIN d.pgenerators : d.pgenerators[p] \in PresigProtocols(b)
    BY <1>3, <1>8, <1>9 DEF Managed, PresigsFit
  <2> QED
    BY <1>2, <1>3, <2>1, <2>2 DEF Managed, PresigsFit
<1>13. MineFit(d, prop) /\ SignsFit(d, prop)
  BY <1>2, <1>3, <1>7, <1>10 DEF Managed, MineFit, SignsFit
<1>14. SpentOnce(d, b)
  <2>1. \A u \in d.used : u \in s.used \/
            (u.triple \in {t0, t1} /\ u.run = s.run[u.triple] /\ u.presig = pb + 1)
    BY DEF Taken, Uses
  <2>2. /\ \A t \in {t0, t1} : t \in 1..b /\ s.run[t] \in Nat /\ t \notin DOMAIN s.generators
                               /\ t \notin DOMAIN d.triples /\ t \in DOMAIN s.triples
    <3>1. \A t \in 1..b : t \in TripleIds /\ s.run[t] \in Nat
      BY <1>1 DEF Managed, Shaped, TripleIds
    <3> QED
      BY <1>4, <1>5, <3>1 DEF Managed, TriplesFit
  <2>3. \A u \in s.used : /\ u.triple \in 1..b /\ u.run \in Nat
                          /\ u.run <= s.run[u.triple]
                          /\ u.triple \in {t0, t1} => u.run # s.run[u.triple]
                          /\ u.triple \in DOMAIN s.triples \cup DOMAIN s.generators =>
                                u.run # s.run[u.triple]
                          /\ \A v \in s.used :
                               u.triple = v.triple /\ u.run = v.run => u.presig = v.presig
    BY <1>4 DEF Managed, SpentOnce
  <2>4. \A u \in d.used : /\ u.triple \in 1..b /\ u.run \in Nat /\ u.run <= s.run[u.triple]
                          /\ u.triple \in DOMAIN d.triples \cup DOMAIN s.generators =>
                                u.run # s.run[u.triple]
    <3> SUFFICES ASSUME NEW u \in d.used
                 PROVE  /\ u.triple \in 1..b /\ u.run \in Nat /\ u.run <= s.run[u.triple]
                        /\ u.triple \in DOMAIN d.triples \cup DOMAIN s.generators =>
                              u.run # s.run[u.triple]
      OBVIOUS
    <3>1. CASE u \in s.used
      BY <1>5, <2>3, <3>1
    <3>2. CASE u.triple \in {t0, t1} /\ u.run = s.run[u.triple]
      <4>1. /\ u.triple \in 1..b /\ s.run[u.triple] \in Nat
            /\ u.triple \notin DOMAIN d.triples \cup DOMAIN s.generators
        BY <2>2, <3>2
      <4>2. u.run \in Nat /\ u.run <= s.run[u.triple]
        BY <3>2, <4>1
      <4> QED
        BY <4>1, <4>2
    <3> QED
      BY <2>1, <3>1, <3>2
  <2>5. \A u, v \in d.used : u.triple = v.triple /\ u.run = v.run => u.presig = v.presig
    BY <2>1, <2>3
  <2> QED
    BY <1>2, <2>4, <2>5 DEF SpentOnce
<1> QED
  BY <1>2, <1>8, <1>10, <1>11, <1>12, <1>13, <1>14 DEF Managed

\* Two lists without a common element, and without repetitions, one after the
\* other.
LEMMA ConcatLists ==
    ASSUME NEW S, NEW f \in Seq(S), NEW g \in Seq(S), IsInjective(f), IsInjective(g),
           ToSet(f) \cap ToSet(g) = {}
    PROVE  /\ f \o g \in Seq(S) /\ IsInjective(f \o g)
           /\ ToSet(f \o g) \subseteq ToSet(f) \cup ToSet(g)
<1> DEFINE h == f \o g
           M == Len(f)
           N == Len(g)
<1>1. /\ M \in Nat /\ N \in Nat /\ DOMAIN f = 1..M /\ DOMAIN g = 1..N
      /\ h \in Seq(S) /\ Len(h) = M + N /\ DOMAIN h = 1..(M + N)
  BY LenProperties, ConcatProperties
<1>2. \A i \in 1..(M + N) : \/ i \in 1..M /\ h[i] = f[i]
                            \/ i - M \in 1..N /\ h[i] = g[i - M]
  BY <1>1, ConcatProperties
<1> HIDE DEF h, M, N
<1>3. ToSet(h) \subseteq ToSet(f) \cup ToSet(g)
  BY <1>1, <1>2 DEF ToSet
<1>4. \A i \in 1..M, j \in 1..N : f[i] # g[j]
  BY <1>1 DEF ToSet
<1>5. ASSUME NEW i \in 1..(M + N), NEW j \in 1..(M + N), h[i] = h[j]
      PROVE  i = j
  <2>1. CASE i \in 1..M /\ j \in 1..M /\ h[i] = f[i] /\ h[j] = f[j]
    BY <1>1, <1>5, <2>1 DEF IsInjective
  <2>2. CASE i - M \in 1..N /\ j - M \in 1..N /\ h[i] = g[i - M] /\ h[j] = g[j - M]
    <3>1. i - M = j - M
      BY <1>1, <1>5, <2>2 DEF IsInjective
    <3> QED
      BY <1>1, <3>1
  <2> QED
    BY <1>2, <1>4, <1>5, <2>1, <2>2
<1>6. IsInjective(h)
  BY <1>1, <1>5 DEF IsInjective
<1> QED
  BY <1>1, <1>3, <1>6 DEF h

\* The first k elements of a list.
Firsts(f, k) == {f[i] : i \in 1..k}

\* What is left of such a list when its first k elements are taken.
LEMMA DropLists ==
    ASSUME NEW S, NEW f \in Seq(S), IsInjective(f), NEW k \in 0..Len(f)
    PROVE  LET g == SubSeq(f, k + 1, Len(f))
           IN /\ g \in Seq(S \ Firsts(f, k)) /\ IsInjective(g)
              /\ ToSet(g) \subseteq ToSet(f)
<1> DEFINE g == SubSeq(f, k + 1, Len(f))
           N == Len(f) - k
           P == Firsts(f, k)
           R == S \ P
<1>1. k \in Nat /\ Len(f) \in Nat /\ N \in Nat /\ DOMAIN f = 1..Len(f)
  BY LenProperties
<1>2. \A i \in (k + 1)..Len(f) : f[i] \in S
  BY <1>1, ElementOfSeq
<1>3. g \in [1..N -> S] /\ \A i \in 1..N : g[i] = f[i + k]
  <2>1. /\ \A i \in 1..(Len(f) - (k + 1) + 1) : g[i] = f[(k + 1) + i - 1]
        /\ g \in Seq(S)
    BY <1>1, <1>2, SubSeqProperties
  <2>5. Len(g) = IF k + 1 <= Len(f) THEN Len(f) - (k + 1) + 1 ELSE 0
    BY <1>1, <1>2, SubSeqProperties
  <2> HIDE DEF g
  <2>2. Len(g) = N
    <3> DEFINE L == Len(f)
               G == Len(g)
    <3>1. L \in Nat /\ k \in 0..L /\ G = IF k + 1 <= L THEN L - (k + 1) + 1 ELSE 0
      BY <1>1, <2>5
    <3> HIDE DEF L, G
    <3>2. G = L - k
      BY <3>1
    <3> QED
      BY <3>2 DEF L, G
  <2>4. g \in [1..Len(g) -> S]
    BY <2>1, LenProperties
  <2>3. ASSUME NEW i \in 1..N
        PROVE  g[i] = f[i + k]
    <3>1. i \in 1..(Len(f) - (k + 1) + 1) /\ (k + 1) + i - 1 = i + k
      BY <1>1
    <3> QED
      BY <2>1, <3>1
  <2> QED
    BY <2>2, <2>3, <2>4
<1> HIDE DEF g
<1>4. DOMAIN g = 1..N /\ g = [i \in 1..N |-> g[i]]
  BY <1>3
<1>5. \A i \in 1..N : i + k \in DOMAIN f /\ i + k \notin 1..k
  BY <1>1
<1>6. \A i \in 1..N : g[i] \in R /\ g[i] \in ToSet(f)
  <2> SUFFICES ASSUME NEW i \in 1..N
               PROVE  f[i + k] \in S /\ f[i + k] \notin P /\ f[i + k] \in ToSet(f)
    BY <1>3
  <2>1. \A j \in 1..k : j \in DOMAIN f
    BY <1>1
  <2> QED
    BY <1>1, <1>5, <2>1, ElementOfSeq DEF IsInjective, ToSet, Firsts
<1>7. IsInjective(g)
  <2> SUFFICES ASSUME NEW i \in 1..N, NEW j \in 1..N, g[i] = g[j] PROVE i = j
    BY <1>4 DEF IsInjective
  <2>1. i + k = j + k
    BY <1>3, <1>5 DEF IsInjective
  <2> QED
    BY <1>1, <2>1
<1>8. ToSet(g) \subseteq ToSet(f)
  BY <1>4, <1>6 DEF ToSet
<1> HIDE DEF N, R
<1>9. g \in [1..N -> R]
  BY <1>4, <1>6
<1>10. g \in Seq(R)
  BY <1>1, <1>9
<1> QED
  BY <1>7, <1>8, <1>10 DEF g, R

\* Poking the presignatures.
LEMMA PresigPokeFits ==
    ASSUME NEW s, NEW d, NEW n \in Nodes, NEW b \in 0..MaxTriples, NEW pb \in 0..MaxPresigs,
           NEW prop \in SUBSET (1..pb), NEW order \in SetToSeqs(DOMAIN s.pgenerators),
           PresigPoked(d, s, order), Managed(s, n, b, pb, prop)
    PROVE  Managed(d, n, b, pb, prop) /\ Drawn(d) \subseteq Drawn(s)
<1> DEFINE done == PresigReturned(s)
           mine == Select(order, OwnPresigs(s, order))
<1>1. pb \in Nat
  BY Bounds
<1>2. /\ DOMAIN d = Fields /\ d.me = s.me /\ d.run = s.run /\ d.triples = s.triples
      /\ d.generators = s.generators /\ d.bins = s.bins /\ d.used = s.used /\ d.mine = s.mine
      /\ d.sgenerators = s.sgenerators /\ d.pbins = s.pbins /\ d.sbins = s.sbins
  BY DEF PresigPoked, SameBut, Fields
<1>3. done \subseteq DOMAIN s.pgenerators /\ DOMAIN s.pgenerators \in SUBSET (1..pb)
  BY DEF PresigReturned, Managed, PresigsFit
<1>4. /\ DOMAIN d.pgenerators = DOMAIN s.pgenerators \ done
      /\ d.presignatures = s.presignatures \cup done
      /\ d.pmine = s.pmine \o mine
  BY DEF PresigPoked
<1>5. \A p \in DOMAIN d.pgenerators : /\ d.pgenerators[p] \in PresigProtocols(b)
                                      /\ d.pgenerators[p].mine = s.pgenerators[p].mine
  <2> SUFFICES ASSUME NEW p \in DOMAIN d.pgenerators
               PROVE  /\ d.pgenerators[p] \in PresigProtocols(b)
                      /\ d.pgenerators[p].mine = s.pgenerators[p].mine
    OBVIOUS
  <2>1. s.pgenerators[p] \in PresigProtocols(b)
    BY <1>4 DEF Managed, PresigsFit
  <2>2. d.pgenerators[p] = [s.pgenerators[p] EXCEPT !.sent = TRUE]
    BY <1>4 DEF PresigPoked
  <2> QED
    BY <2>1, <2>2 DEF PresigProtocols
<1>6. /\ mine \in Seq({p \in done : s.pgenerators[p].mine}) /\ IsInjective(mine)
  <2> DEFINE I == OwnPresigs(s, order)
  <2>1. I \in SUBSET DOMAIN order
        /\ {order[i] : i \in I} \subseteq {p \in done : s.pgenerators[p].mine}
    BY DEF OwnPresigs
  <2> HIDE DEF I, done
  <2>2. Select(order, I) \in Seq({order[i] : i \in I}) /\ IsInjective(Select(order, I))
    BY <1>1, <1>3, <2>1, SelectLists
  <2> QED
    BY <2>1, <2>2, SeqMonotonic DEF I, done
<1> HIDE DEF done, mine
<1>7. /\ s.pmine \in Seq(s.presignatures) /\ IsInjective(s.pmine)
      /\ s.presignatures \cap DOMAIN s.pgenerators = {}
  BY DEF Managed, MineFit, PresigsFit
<1>8. s.pmine \in Seq(d.presignatures) /\ mine \in Seq(d.presignatures)
  BY <1>4, <1>6, <1>7, SeqMonotonic
<1>9. /\ ToSet(s.pmine) \subseteq s.presignatures
      /\ \A p \in ToSet(mine) : p \in done /\ s.pgenerators[p].mine
  BY <1>6, <1>7, ElementOfSeq, LenProperties DEF ToSet
<1>10. ToSet(s.pmine) \cap ToSet(mine) = {}
  BY <1>3, <1>7, <1>9
<1>11. /\ d.pmine \in Seq(d.presignatures) /\ IsInjective(d.pmine)
       /\ ToSet(d.pmine) \subseteq ToSet(s.pmine) \cup ToSet(mine)
  BY <1>4, <1>6, <1>7, <1>8, <1>10, ConcatLists
<1>12. Drawn(d) \subseteq Drawn(s)
  BY <1>3, <1>4, <1>5, <1>9, <1>11 DEF Drawn
<1>13. PresigsFit(d, b, pb)
  BY <1>2, <1>3, <1>4, <1>5, <1>7 DEF Managed, PresigsFit
<1>14. MineFit(d, prop)
  BY <1>11, <1>12 DEF Managed, MineFit
<1>15. Shaped(d, n) /\ TriplesFit(d, b) /\ SpentOnce(d, b) /\ SignsFit(d, prop)
  BY <1>2 DEF Managed, Shaped, TriplesFit, SpentOnce, SignsFit
<1> QED
  BY <1>12, <1>13, <1>14, <1>15 DEF Managed

\* Taking the first presignatures of the node's own for requests.
LEMMA SignGenerateFits ==
    ASSUME NEW s, NEW d, NEW n \in Nodes, NEW b \in 0..MaxTriples, NEW pb \in 0..MaxPresigs,
           NEW prop \in SUBSET (1..pb), NEW k \in 0..Len(s.pmine), SignGenerated(d, s, k),
           Managed(s, n, b, pb, prop)
    PROVE  /\ Managed(d, n, b, pb, prop \cup Firsts(s.pmine, k))
           /\ Firsts(s.pmine, k) \subseteq Drawn(s) /\ Firsts(s.pmine, k) \subseteq 1..pb
           /\ Drawn(d) \subseteq Drawn(s)
<1> DEFINE P == Firsts(s.pmine, k)
<1>1. /\ s.pmine \in Seq(s.presignatures) /\ IsInjective(s.pmine)
      /\ DOMAIN s.pmine = 1..Len(s.pmine) /\ Len(s.pmine) \in Nat
      /\ s.presignatures \cap DOMAIN s.pgenerators = {}
      /\ s.presignatures \subseteq 1..pb
      /\ \A i \in 1..Len(s.pmine) : s.pmine[i] \in s.presignatures
  BY LenProperties, ElementOfSeq DEF Managed, MineFit, PresigsFit
<1>2. /\ DOMAIN d = Fields /\ d.me = s.me /\ d.run = s.run /\ d.triples = s.triples
      /\ d.generators = s.generators /\ d.bins = s.bins /\ d.used = s.used /\ d.mine = s.mine
      /\ d.pgenerators = s.pgenerators /\ d.pbins = s.pbins /\ d.sbins = s.sbins
  BY DEF SignGenerated, SameBut, Fields
<1>3. /\ d.pmine = SubSeq(s.pmine, k + 1, Len(s.pmine))
      /\ d.presignatures = s.presignatures \ P
      /\ d.sgenerators = With(s.sgenerators, P, NewSignProtocol(s.me))
  BY DEF SignGenerated, Firsts
<1>4. P \subseteq ToSet(s.pmine) /\ P \subseteq s.presignatures
  BY <1>1 DEF ToSet, Firsts
<1> HIDE DEF P
<1>5. /\ d.pmine \in Seq(d.presignatures) /\ IsInjective(d.pmine)
      /\ ToSet(d.pmine) \subseteq ToSet(s.pmine)
  BY <1>1, <1>3, DropLists DEF P
<1>9. P \subseteq Drawn(s) /\ P \subseteq 1..pb
  BY <1>1, <1>4 DEF Drawn
<1>10. ToSet(d.pmine) \subseteq ToSet(s.pmine) \ P
  BY <1>3, <1>5, ElementOfSeq, LenProperties DEF ToSet
<1>11. Drawn(d) \subseteq Drawn(s) /\ Drawn(d) \cap P = {}
  BY <1>1, <1>2, <1>4, <1>10 DEF Drawn
<1>12. MineFit(d, prop \cup P)
  BY <1>5, <1>11 DEF Managed, MineFit
<1>13. SignsFit(d, prop \cup P)
  <2>1. /\ DOMAIN d.sgenerators = DOMAIN s.sgenerators \cup P
        /\ \A p \in DOMAIN d.sgenerators : d.sgenerators[p] = NewSignProtocol(n)
                \/ (p \in DOMAIN s.sgenerators /\ d.sgenerators[p] = s.sgenerators[p])
    BY <1>3 DEF With, Managed, Shaped
  <2>2. NewSignProtocol(n) \in SignProtocols
    BY DEF NewSignProtocol, SignProtocols
  <2> QED
    BY <1>2, <2>1, <2>2 DEF Managed, SignsFit
<1>14. Shaped(d, n) /\ TriplesFit(d, b) /\ SpentOnce(d, b) /\ PresigsFit(d, b, pb)
  BY <1>2, <1>3 DEF Managed, Shaped, TriplesFit, SpentOnce, PresigsFit
<1> QED
  BY <1>9, <1>11, <1>12, <1>13, <1>14 DEF Managed, P

\* Poking the signatures.
LEMMA SignPokeFits ==
    ASSUME NEW s, NEW d, NEW n \in Nodes, NEW b \in 0..MaxTriples, NEW pb \in 0..MaxPresigs,
           NEW prop \in SUBSET (1..pb), SignPoked(d, s), Managed(s, n, b, pb, prop)
    PROVE  Managed(d, n, b, pb, prop) /\ Drawn(d) = Drawn(s)
<1>1. /\ DOMAIN d = Fields /\ d.me = s.me /\ d.run = s.run /\ d.triples = s.triples
      /\ d.generators = s.generators /\ d.bins = s.bins /\ d.used = s.used /\ d.mine = s.mine
      /\ d.presignatures = s.presignatures /\ d.pmine = s.pmine
      /\ d.pgenerators = s.pgenerators /\ d.pbins = s.pbins /\ d.sbins = s.sbins
  BY DEF SignPoked, SameBut, Fields
<1>2. SignsFit(d, prop)
  <2>1. /\ DOMAIN d.sgenerators \subseteq DOMAIN s.sgenerators
        /\ \A p \in DOMAIN d.sgenerators :
              d.sgenerators[p] = [s.sgenerators[p] EXCEPT !.sent = TRUE]
    BY DEF SignPoked
  <2>2. \A p \in DOMAIN d.sgenerators : d.sgenerators[p] \in SignProtocols
    BY <2>1 DEF Managed, SignsFit, SignProtocols
  <2> QED
    BY <1>1, <2>1, <2>2 DEF Managed, SignsFit
<1>3. Drawn(d) = Drawn(s)
  BY <1>1 DEF Drawn
<1>4. /\ Shaped(d, n) /\ TriplesFit(d, b) /\ SpentOnce(d, b) /\ PresigsFit(d, b, pb)
      /\ MineFit(d, prop)
  BY <1>1, <1>3 DEF Managed, Shaped, TriplesFit, SpentOnce, PresigsFit, MineFit
<1> QED
  BY <1>2, <1>3, <1>4 DEF Managed

\* What a sender's bin has for round r.
FirstOf(bin, r, q) == Select(bin[q], {i \in DOMAIN bin[q] : bin[q][i].round = r})

\* A protocol hears the runs of messages.
LEMMA MessageTyped ==
    ASSUME NEW n \in Nodes, NEW p \in Protocols(n), NEW bin \in [Nodes -> Seq(TripleMessage)]
    PROVE  Message(p, bin) \in Protocols(n)
<1> DEFINE heard == [r \in 1..2 |-> [q \in Nodes |->
             IF q # p.me /\ p.heard[r][q] = 0 /\ FirstOf(bin, r, q) # <<>>
             THEN FirstOf(bin, r, q)[1].run ELSE p.heard[r][q]]]
<1>1. Message(p, bin) = [p EXCEPT !.heard = heard]
  BY DEF Message, FirstOf
<1>2. ASSUME NEW r \in 1..2, NEW q \in Nodes, FirstOf(bin, r, q) # <<>>
      PROVE  FirstOf(bin, r, q)[1].run \in 0..MaxRuns
  <2> DEFINE f == bin[q]
             I == {i \in DOMAIN f : f[i].round = r}
             g == Select(f, I)
  <2>1. f \in Seq(TripleMessage) /\ I \in SUBSET DOMAIN f /\ FirstOf(bin, r, q) = g
    BY DEF FirstOf
  <2> HIDE DEF f, I
  <2>2. g \in Seq(TripleMessage)
    BY <2>1, SelectAt
  <2>3. g # <<>>
    BY <1>2, <2>1
  <2> HIDE DEF g
  <2>4. 1 \in 1..Len(g)
    BY <2>2, <2>3, EmptySeq, LenProperties
  <2>5. g[1] \in TripleMessage
    BY <2>2, <2>4, ElementOfSeq
  <2> QED
    BY <2>1, <2>5, Bounds DEF TripleMessage
<1>3. heard \in [1..2 -> [Nodes -> 0..MaxRuns]]
  BY <1>2 DEF Protocols
<1> HIDE DEF heard
<1> QED
  BY <1>1, <1>3 DEF Protocols

\* Feeding the bins of the triples.
LEMMA HandleTriplesFits ==
    ASSUME NEW s, NEW d, NEW n \in Nodes, NEW b \in 0..MaxTriples, NEW pb \in 0..MaxPresigs,
           NEW prop \in SUBSET (1..pb), HandledTriples(d, s), Managed(s, n, b, pb, prop)
    PROVE  Managed(d, n, b, pb, prop) /\ Drawn(d) = Drawn(s)
<1>1. b \in Nat /\ MaxTriples \in Nat /\ MaxRuns \in Nat \ {0} /\ 1..b \subseteq TripleIds
  BY Bounds DEF TripleIds
<1>2. /\ DOMAIN d = Fields /\ d.me = s.me /\ d.triples = s.triples
      /\ d.used = s.used /\ d.mine = s.mine /\ d.sgenerators = s.sgenerators
      /\ d.presignatures = s.presignatures /\ d.pmine = s.pmine
      /\ d.pgenerators = s.pgenerators /\ d.pbins = s.pbins /\ d.sbins = s.sbins
  BY DEF HandledTriples, SameBut, Fields
<1>3. /\ s.me = n /\ s.run \in [TripleIds -> 0..MaxRuns]
      /\ DOMAIN s.bins \subseteq 1..b /\ DOMAIN s.generators \subseteq 1..b
      /\ DOMAIN s.triples \cap DOMAIN s.generators = {}
  BY DEF Managed, Shaped, TriplesFit
<1>4. \A t \in Joined(s) : /\ t \in 1..b /\ t \in TripleIds /\ s.run[t] < MaxRuns
                           /\ t \notin DOMAIN s.triples
  BY <1>1, <1>3 DEF Joined
<1>5. /\ DOMAIN d.bins = DOMAIN s.bins
      /\ DOMAIN d.generators = DOMAIN s.generators \cup Joined(s)
      /\ \A t \in TripleIds : d.run[t] = IF t \in Joined(s) THEN s.run[t] + 1 ELSE s.run[t]
      /\ d.run = [t \in TripleIds |-> d.run[t]]
  BY DEF HandledTriples
<1>6. /\ d.run \in [TripleIds -> 0..MaxRuns]
      /\ \A t \in Joined(s) : d.run[t] = s.run[t] + 1 /\ d.run[t] # 0
  <2>1. \A t \in TripleIds : s.run[t] \in Nat /\ d.run[t] \in 0..MaxRuns
    BY <1>1, <1>3, <1>4, <1>5
  <2> QED
    BY <1>4, <1>5, <2>1
<1>7. \A t \in DOMAIN d.bins : d.bins[t] \in [Nodes -> Seq(TripleMessage)]
  <2>1. EmptyBin \in [Nodes -> Seq(TripleMessage)]
    BY DEF EmptyBin
  <2>2. \A t \in DOMAIN d.bins : d.bins[t] = EmptyBin \/ d.bins[t] = s.bins[t]
    BY <1>5 DEF HandledTriples
  <2> QED
    BY <1>5, <2>1, <2>2 DEF Managed, TriplesFit
<1>8. \A t \in DOMAIN d.generators : d.generators[t] \in Protocols(n)
  <2> SUFFICES ASSUME NEW t \in DOMAIN s.generators \cup Joined(s)
               PROVE  Message(TripleGen(s, t), TripleBin(s, t)) \in Protocols(n)
    BY <1>5 DEF HandledTriples
  <2>1. NewTripleProtocol(n) \in Protocols(n)
    BY <1>1 DEF NewTripleProtocol, Protocols
  <2>2. TripleGen(s, t) \in Protocols(n)
    BY <1>3, <2>1 DEF TripleGen, Managed, TriplesFit
  <2>3. TripleBin(s, t) \in [Nodes -> Seq(TripleMessage)]
    BY DEF TripleBin, EmptyBin, Managed, TriplesFit
  <2> QED
    BY <2>2, <2>3, MessageTyped
<1>9. \A t \in DOMAIN d.generators : d.run[t] # 0
  BY <1>1, <1>3, <1>5, <1>6 DEF Managed, TriplesFit
<1>10. \A t \in TripleIds : t > b => d.run[t] = 0
  BY <1>1, <1>4, <1>5 DEF Managed, TriplesFit
<1>11. TriplesFit(d, b) /\ Shaped(d, n)
  <2>1. DOMAIN d.triples \cap DOMAIN d.generators = {} /\ DOMAIN d.generators \subseteq 1..b
    BY <1>2, <1>3, <1>4, <1>5
  <2> QED
    BY <1>2, <1>3, <1>5, <1>6, <1>7, <1>8, <1>9, <1>10, <2>1
       DEF Managed, TriplesFit, Shaped
<1>12. SpentOnce(d, b)
  <2> SUFFICES ASSUME NEW u \in s.used
               PROVE  /\ u.run <= d.run[u.triple]
                      /\ u.triple \in DOMAIN d.triples \cup DOMAIN d.generators =>
                            u.run # d.run[u.triple]
    BY <1>2 DEF Managed, SpentOnce
  <2>1. /\ u.triple \in 1..b /\ u.triple \in TripleIds /\ u.run \in Nat
        /\ u.run <= s.run[u.triple]
        /\ u.triple \in DOMAIN s.triples \cup DOMAIN s.generators => u.run # s.run[u.triple]
    BY <1>1 DEF Managed, SpentOnce
  <2>2. s.run[u.triple] \in Nat
    BY <1>1, <1>3, <2>1
  <2> QED
    BY <1>2, <1>5, <2>1, <2>2
<1>13. Drawn(d) = Drawn(s)
  BY <1>2 DEF Drawn
<1>14. PresigsFit(d, b, pb) /\ MineFit(d, prop) /\ SignsFit(d, prop)
  BY <1>2, <1>13 DEF Managed, PresigsFit, MineFit, SignsFit
<1> QED
  BY <1>11, <1>12, <1>13, <1>14 DEF Managed

\* Feeding the bins of the presignatures.
LEMMA HandlePresigsFits ==
    ASSUME NEW s, NEW d, NEW n \in Nodes, NEW b \in 0..MaxTriples, NEW pb \in 0..MaxPresigs,
           NEW prop \in SUBSET (1..pb), NEW J \in JoinSets(s), HandledPresigs(d, s, J),
           Managed(s, n, b, pb, prop)
    PROVE  Managed(d, n, b, pb, prop) /\ Drawn(d) = Drawn(s)
<1> DEFINE spent == UNION {TriplesOf(s, p) : p \in J}
<1>1. b \in Nat /\ MaxTriples \in Nat /\ 1..b \subseteq TripleIds /\ MaxRuns \in Nat
  BY Bounds DEF TripleIds
<1>2. /\ DOMAIN d = Fields /\ d.me = s.me /\ d.run = s.run /\ d.generators = s.generators
      /\ d.bins = s.bins /\ d.mine = s.mine /\ d.sgenerators = s.sgenerators
      /\ d.presignatures = s.presignatures /\ d.pmine = s.pmine /\ d.sbins = s.sbins
  BY DEF HandledPresigs, SameBut, Fields
<1>3. /\ J \subseteq DOMAIN s.pbins
      /\ \A p \in J : /\ p \notin s.presignatures /\ p \notin DOMAIN s.pgenerators
                      /\ s.pbins[p] # {} /\ TriplesOf(s, p) \subseteq DOMAIN s.triples
      /\ \A p, q \in J : p = q \/ TriplesOf(s, p) \cap TriplesOf(s, q) = {}
  BY DEF JoinSets, Joinable
<1>4. DOMAIN d.triples = DOMAIN s.triples \ spent
  BY DEF HandledPresigs, Without
<1>5. /\ DOMAIN s.pbins \subseteq 1..pb /\ DOMAIN s.pgenerators \subseteq 1..pb
      /\ DOMAIN s.triples \subseteq 1..b
      /\ DOMAIN s.triples \cap DOMAIN s.generators = {}
      /\ s.run \in [TripleIds -> 0..MaxRuns]
      /\ \A p \in DOMAIN s.pbins : s.pbins[p] \subseteq PresigMessage
      /\ \A p \in DOMAIN s.pgenerators : s.pgenerators[p] \in PresigProtocols(b)
  BY DEF Managed, Shaped, TriplesFit, PresigsFit
<1>6. DOMAIN d.pgenerators = DOMAIN s.pgenerators \cup J /\ DOMAIN d.pbins = DOMAIN s.pbins
  BY DEF HandledPresigs, Leftover
<1>7. \A p \in DOMAIN d.pgenerators :
        /\ d.pgenerators[p] \in PresigProtocols(b)
        /\ d.pgenerators[p].mine <=> p \in DOMAIN s.pgenerators /\ s.pgenerators[p].mine
  <2> SUFFICES ASSUME NEW p \in DOMAIN s.pgenerators \cup J
               PROVE  /\ d.pgenerators[p] \in PresigProtocols(b)
                      /\ d.pgenerators[p].mine <=>
                            p \in DOMAIN s.pgenerators /\ s.pgenerators[p].mine
    BY <1>6
  <2> DEFINE H == Senders(s.pbins, p) \ {s.me}
             g == PresigGen(s, J, p)
  <2>1. d.pgenerators[p] = [g EXCEPT !.heard = @ \cup H]
    BY DEF HandledPresigs
  <2>2. H \subseteq Nodes
    BY <1>5 DEF Senders, PresigMessage
  <2>3. /\ g \in PresigProtocols(b)
        /\ g.mine <=> p \in DOMAIN s.pgenerators /\ s.pgenerators[p].mine
    <3>1. CASE p \in J
      <4> DEFINE m == CHOOSE m \in s.pbins[p] : TRUE
      <4>1. m \in s.pbins[p] /\ g = NewPresigProtocol(m.triple0, m.triple1, FALSE)
        BY <1>3, <3>1 DEF PresigGen
      <4> HIDE DEF m
      <4>2. m.triple0 \in TriplesOf(s, p) /\ m.triple1 \in TriplesOf(s, p)
        BY <4>1 DEF TriplesOf
      <4>3. m.triple0 \in 1..b /\ m.triple1 \in 1..b
        BY <1>3, <1>5, <3>1, <4>2
      <4> QED
        BY <1>3, <3>1, <4>1, <4>3 DEF NewPresigProtocol, PresigProtocols
    <3>2. CASE p \notin J
      BY <1>5, <3>2 DEF PresigGen
    <3> QED
      BY <3>1, <3>2
  <2> HIDE DEF g, H
  <2> QED
    BY <2>1, <2>2, <2>3 DEF PresigProtocols
<1>8. \A p \in DOMAIN d.pbins : d.pbins[p] \subseteq PresigMessage
  BY <1>5, <1>6 DEF HandledPresigs, Leftover
<1>9. PresigsFit(d, b, pb)
  <2>1. /\ DOMAIN d.pgenerators \subseteq 1..pb
        /\ d.presignatures \cap DOMAIN d.pgenerators = {}
    BY <1>2, <1>3, <1>5, <1>6 DEF Managed, PresigsFit
  <2> QED
    BY <1>2, <1>5, <1>6, <1>7, <1>8, <2>1 DEF Managed, PresigsFit
<1>10. Drawn(d) = Drawn(s)
  BY <1>2, <1>6, <1>7 DEF Drawn
<1>11. TriplesFit(d, b) /\ Shaped(d, n)
  BY <1>2, <1>4 DEF Managed, TriplesFit, Shaped
<1>12. SpentOnce(d, b)
  <2>1. \A u \in d.used : u \in s.used \/
            \E p \in J : /\ u.presig = p /\ u.triple \in TriplesOf(s, p)
                         /\ u.run = s.run[u.triple]
    BY DEF HandledPresigs, Uses
  <2>2. \A p \in J : \A t \in TriplesOf(s, p) :
            /\ t \in 1..b /\ s.run[t] \in Nat /\ t \notin DOMAIN s.generators
            /\ t \notin DOMAIN d.triples /\ t \in DOMAIN s.triples
    BY <1>1, <1>3, <1>4, <1>5
  <2>3. \A u \in s.used : /\ u.triple \in 1..b /\ u.run \in Nat
                          /\ u.run <= s.run[u.triple]
                          /\ u.triple \in DOMAIN s.triples \cup DOMAIN s.generators =>
                                u.run # s.run[u.triple]
                          /\ \A v \in s.used :
                               u.triple = v.triple /\ u.run = v.run => u.presig = v.presig
    BY DEF Managed, SpentOnce
  <2> HIDE DEF spent
  <2>4. ASSUME NEW u \in d.used
        PROVE  /\ u.triple \in 1..b /\ u.run \in Nat /\ u.run <= s.run[u.triple]
               /\ u.triple \in DOMAIN d.triples \cup DOMAIN s.generators =>
                     u.run # s.run[u.triple]
    <3>1. CASE u \in s.used
      BY <1>4, <2>3, <3>1
    <3>2. CASE \E p \in J : u.triple \in TriplesOf(s, p) /\ u.run = s.run[u.triple]
      BY <2>2, <3>2
    <3> QED
      BY <2>1, <3>1, <3>2
  <2>5. ASSUME NEW u \in d.used, NEW v \in d.used, u.triple = v.triple, u.run = v.run
        PROVE  u.presig = v.presig
    <3>1. CASE u \in s.used /\ v \in s.used
      BY <2>3, <2>5, <3>1
    <3>2. CASE u \in s.used /\ v \notin s.used
      <4>1. v.triple \in DOMAIN s.triples /\ v.run = s.run[v.triple]
        BY <2>1, <2>2, <3>2
      <4> QED
        BY <2>3, <2>5, <3>2, <4>1
    <3>3. CASE u \notin s.used /\ v \in s.used
      <4>1. u.triple \in DOMAIN s.triples /\ u.run = s.run[u.triple]
        BY <2>1, <2>2, <3>3
      <4> QED
        BY <2>3, <2>5, <3>3, <4>1
    <3>4. CASE u \notin s.used /\ v \notin s.used
      BY <1>3, <2>1, <2>5, <3>4
    <3> QED
      BY <3>1, <3>2, <3>3, <3>4
  <2> QED
    BY <1>2, <2>4, <2>5 DEF SpentOnce
<1>13. MineFit(d, prop) /\ SignsFit(d, prop)
  BY <1>2, <1>10 DEF Managed, MineFit, SignsFit
<1> QED
  BY <1>9, <1>10, <1>11, <1>12, <1>13 DEF Managed

\* Feeding the bins of the signatures: what they take is never of the node's own,
\* for the presignature of a message is one its proposer has taken.
LEMMA HandleSignsFits ==
    ASSUME NEW s, NEW d, NEW n \in Nodes, NEW b \in 0..MaxTriples, NEW pb \in 0..MaxPresigs,
           NEW prop \in SUBSET (1..pb), HandledSigns(d, s), Managed(s, n, b, pb, prop)
    PROVE  Managed(d, n, b, pb, prop) /\ Drawn(d) = Drawn(s)
<1> DEFINE taken == SignJoinable(s)
<1>1. /\ DOMAIN d = Fields /\ d.me = s.me /\ d.run = s.run /\ d.generators = s.generators
      /\ d.bins = s.bins /\ d.mine = s.mine /\ d.triples = s.triples /\ d.used = s.used
      /\ d.pgenerators = s.pgenerators /\ d.pmine = s.pmine /\ d.pbins = s.pbins
  BY DEF HandledSigns, SameBut, Fields
<1>2. d.presignatures = s.presignatures \ taken
  BY DEF HandledSigns
<1>3. /\ taken \subseteq prop /\ taken \subseteq DOMAIN s.sbins
      /\ \A p \in taken : s.sbins[p] # {}
  BY DEF SignJoinable, Managed, SignsFit
<1>4. /\ DOMAIN s.sgenerators \subseteq prop /\ DOMAIN s.sbins \subseteq prop
      /\ \A p \in DOMAIN s.sgenerators : s.sgenerators[p] \in SignProtocols
      /\ \A p \in DOMAIN s.sbins : s.sbins[p] \subseteq SignMessage
  BY DEF Managed, SignsFit
<1>5. DOMAIN d.sgenerators = DOMAIN s.sgenerators \cup taken /\ DOMAIN d.sbins = DOMAIN s.sbins
  BY DEF HandledSigns, Leftover
<1>6. \A p \in DOMAIN d.sgenerators : d.sgenerators[p] \in SignProtocols
  <2> SUFFICES ASSUME NEW p \in DOMAIN s.sgenerators \cup taken
               PROVE  d.sgenerators[p] \in SignProtocols
    BY <1>5
  <2> DEFINE H == Senders(s.sbins, p) \ {s.me}
             g == SignGen(s, p)
  <2>1. d.sgenerators[p] = [g EXCEPT !.heard = @ \cup H]
    BY DEF HandledSigns
  <2>2. H \subseteq Nodes
    BY <1>4 DEF Senders, SignMessage
  <2>3. g \in SignProtocols
    <3>1. CASE p \in DOMAIN s.sgenerators
      BY <1>4, <3>1 DEF SignGen
    <3>2. CASE p \notin DOMAIN s.sgenerators
      <4> DEFINE m == CHOOSE m \in s.sbins[p] : TRUE
      <4>1. m \in s.sbins[p] /\ g = NewSignProtocol(m.proposer)
        BY <1>3, <3>2 DEF SignGen
      <4> HIDE DEF m
      <4>2. m \in SignMessage
        BY <1>3, <1>4, <3>2, <4>1
      <4> QED
        BY <4>1, <4>2 DEF NewSignProtocol, SignProtocols, SignMessage
    <3> QED
      BY <3>1, <3>2
  <2> HIDE DEF g, H
  <2> QED
    BY <2>1, <2>2, <2>3 DEF SignProtocols
<1>7. SignsFit(d, prop)
  <2>1. \A p \in DOMAIN d.sbins : d.sbins[p] \subseteq SignMessage
    BY <1>4, <1>5 DEF HandledSigns, Leftover
  <2> QED
    BY <1>3, <1>4, <1>5, <1>6, <2>1 DEF SignsFit
<1>8. Drawn(d) = Drawn(s)
  BY <1>1 DEF Drawn
<1>9. d.pmine \in Seq(d.presignatures)
  <2> DEFINE f == s.pmine
             S == s.presignatures
             R == d.presignatures
  <2>1. f \in Seq(S) /\ ToSet(f) \cap prop = {} /\ R = S \ taken
    BY <1>2 DEF Managed, MineFit, Drawn
  <2> HIDE DEF f, S, R, taken
  <2>2. f \in [1..Len(f) -> S] /\ Len(f) \in Nat /\ DOMAIN f = 1..Len(f)
    BY <2>1, LenProperties
  <2>3. \A i \in 1..Len(f) : f[i] \in R
    BY <1>3, <2>1, <2>2 DEF ToSet
  <2>4. f \in Seq(R)
    BY <2>2, <2>3
  <2> QED
    BY <1>1, <2>4 DEF f, R
<1>10. MineFit(d, prop)
  BY <1>1, <1>8, <1>9 DEF Managed, MineFit
<1>11. PresigsFit(d, b, pb)
  BY <1>1, <1>2 DEF Managed, PresigsFit
<1>12. Shaped(d, n) /\ TriplesFit(d, b) /\ SpentOnce(d, b)
  BY <1>1 DEF Managed, Shaped, TriplesFit, SpentOnce
<1> QED
  BY <1>7, <1>8, <1>10, <1>11, <1>12 DEF Managed

-----------------------------------------------------------------------------
(* What a turn sends.                                                       *)

Envelopes(n, b, pb, prop) == [to : Nodes, msg : Sent(n, b, pb, prop)]

\* Messages for some of the nodes are messages for nodes.
LEMMA SendManyTyped ==
    ASSUME NEW S, NEW msgs \in Seq(S), NEW Q \in SUBSET Nodes
    PROVE  SendMany(msgs, Q) \in Seq([to : Nodes, msg : S])
<1> DEFINE A == [to : Q, msg : S]
           B == [to : Nodes, msg : S]
<1>1. IsFiniteSet(Q)
  BY Bounds, FS_Subset
<1>2. SendMany(msgs, Q) \in Seq(A)
  BY <1>1, SendManyAt
<1>3. A \subseteq B
  OBVIOUS
<1> HIDE DEF A, B
<1> QED
  BY <1>2, <1>3, SeqMonotonic DEF B

\* Triple messages.
LEMMA TripleMessagesTyped ==
    ASSUME NEW s, NEW n \in Nodes, NEW b \in 0..MaxTriples, NEW pb \in 0..MaxPresigs,
           NEW prop \in SUBSET (1..pb), NEW order \in SetToSeqs(DOMAIN s.generators),
           Managed(s, n, b, pb, prop)
    PROVE  TripleMessages(s, order) \in Seq(Envelopes(n, b, pb, prop))
<1> DEFINE N == 2 * Len(order)
           S == Sent(n, b, pb, prop)
           all == [i \in 1..N |->
                    [kind |-> "triple", id |-> order[(i + 1) \div 2], from |-> s.me,
                     round |-> 2 - (i % 2), run |-> s.run[order[(i + 1) \div 2]]]]
           I == {i \in DOMAIN all : /\ s.generators[all[i].id].sent < all[i].round
                                    /\ all[i].round <= SentBy(s.generators[all[i].id])}
<1>1. /\ b \in Nat /\ MaxTriples \in Nat /\ MaxRuns \in Nat /\ 1..b \subseteq TripleIds
      /\ DOMAIN s.generators \in SUBSET (1..b)
  BY Bounds DEF TripleIds, Managed, TriplesFit
<1>2. order \in Seq(DOMAIN s.generators) /\ Len(order) \in Nat
  BY <1>1, OrderLists
<1>3. ASSUME NEW i \in 1..N
      PROVE  all[i] \in S
  <2>1. (i + 1) \div 2 \in 1..Len(order) /\ 2 - (i % 2) \in 1..2
    BY <1>2
  <2> DEFINE t == order[(i + 1) \div 2]
             r == 2 - (i % 2)
  <2>2. t \in DOMAIN s.generators /\ r \in 1..2
    BY <1>2, <2>1, ElementOfSeq
  <2>3. all[i] = [kind |-> "triple", id |-> t, from |-> s.me, round |-> r, run |-> s.run[t]]
    OBVIOUS
  <2> HIDE DEF t, r, all
  <2>4. /\ t \in 1..b /\ t \in TripleIds /\ t <= b /\ s.run[t] \in 1..MaxRuns /\ s.me = n
    BY <1>1, <2>2 DEF Managed, Shaped, TriplesFit
  <2>5. all[i] \in TripleMessage /\ all[i].from = n /\ all[i].id <= b /\ all[i].kind = "triple"
    BY <2>2, <2>3, <2>4 DEF TripleMessage
  <2> QED
    BY <2>5 DEF Sent, MpcMessage
<1>4. N \in Nat /\ DOMAIN all = 1..N /\ all = [i \in 1..N |-> all[i]] /\ I \subseteq DOMAIN all
  BY <1>2
<1>5. TripleMessages(s, order) = SendMany(Select(all, I), Nodes \ {s.me})
  BY DEF TripleMessages
<1> HIDE DEF N, S, all, I
<1>6. all \in [1..N -> S]
  BY <1>3, <1>4
<1>7. all \in Seq(S)
  BY <1>4, <1>6
<1>8. Select(all, I) \in Seq(S)
  BY <1>4, <1>7, SelectAt
<1>9. SendMany(Select(all, I), Nodes \ {s.me}) \in Seq([to : Nodes, msg : S])
  BY <1>8, SendManyTyped
<1> QED
  BY <1>5, <1>9 DEF Envelopes, S

\* Presignature messages.
LEMMA PresigMessagesTyped ==
    ASSUME NEW s, NEW n \in Nodes, NEW b \in 0..MaxTriples, NEW pb \in 0..MaxPresigs,
           NEW prop \in SUBSET (1..pb), NEW order \in SetToSeqs(DOMAIN s.pgenerators),
           Managed(s, n, b, pb, prop)
    PROVE  /\ PresigMessages(s, order) \in Seq(Envelopes(n, b, pb, prop))
           /\ PresigMessages(s, order) \in Seq([to : Nodes, msg : PresigMessage])
<1> DEFINE I == {i \in DOMAIN order : ~ s.pgenerators[order[i]].sent}
           first == Select(order, I)
           D == DOMAIN s.pgenerators
           S == Sent(n, b, pb, prop)
           N == Len(first)
           all == [i \in 1..Len(first) |->
                    [kind |-> "presig", id |-> first[i], from |-> s.me,
                     triple0 |-> s.pgenerators[first[i]].triple0,
                     triple1 |-> s.pgenerators[first[i]].triple1]]
<1>1. /\ b \in Nat /\ pb \in Nat /\ MaxPresigs \in Nat /\ MaxTriples \in Nat
      /\ 1..b \subseteq TripleIds /\ 1..pb \subseteq PresigIds /\ D \in SUBSET (1..pb)
  BY Bounds DEF TripleIds, PresigIds, Managed, PresigsFit
<1>2. order \in Seq(D) /\ I \in SUBSET DOMAIN order
  BY <1>1, OrderLists
<1>3. PresigMessages(s, order) = SendMany(all, Nodes)
  BY DEF PresigMessages
<1> HIDE DEF I
<1>4. first \in Seq(D)
  <2> HIDE DEF D
  <2> QED
    BY <1>2, SelectAt
<1> HIDE DEF first
<1>5. N \in Nat
  BY <1>4, LenProperties
<1>6. ASSUME NEW i \in 1..N
      PROVE  all[i] \in S /\ all[i] \in PresigMessage
  <2> DEFINE p == first[i]
             g == s.pgenerators[p]
  <2>1. p \in D
    BY <1>4, ElementOfSeq
  <2>2. /\ all[i] = [kind |-> "presig", id |-> p, from |-> s.me,
                     triple0 |-> g.triple0, triple1 |-> g.triple1]
    OBVIOUS
  <2>3. p \in PresigIds /\ p <= pb /\ s.me = n /\ g \in PresigProtocols(b)
    BY <1>1, <2>1 DEF Managed, Shaped, PresigsFit
  <2> HIDE DEF p, g, all, D
  <2>4. g.triple0 \in TripleIds /\ g.triple1 \in TripleIds
    BY <1>1, <2>3 DEF PresigProtocols
  <2>5. all[i] \in PresigMessage /\ all[i].from = n /\ all[i].id <= pb /\ all[i].kind = "presig"
    BY <2>2, <2>3, <2>4 DEF PresigMessage
  <2> QED
    BY <2>5 DEF Sent, MpcMessage
<1>7. all \in [1..N -> S] /\ all \in [1..N -> PresigMessage]
  <2>1. all = [i \in 1..N |-> all[i]]
    OBVIOUS
  <2> HIDE DEF all, S, N
  <2> QED
    BY <1>6, <2>1
<1> HIDE DEF all, S, N
<1>8. all \in Seq(S) /\ all \in Seq(PresigMessage)
  BY <1>5, <1>7
<1> QED
  BY <1>3, <1>8, SendManyTyped DEF Envelopes, S

\* Signature messages.
LEMMA SignMessagesTyped ==
    ASSUME NEW s, NEW n \in Nodes, NEW b \in 0..MaxTriples, NEW pb \in 0..MaxPresigs,
           NEW prop \in SUBSET (1..pb), NEW order \in SetToSeqs(DOMAIN s.sgenerators),
           Managed(s, n, b, pb, prop)
    PROVE  /\ SignMessages(s, order) \in Seq(Envelopes(n, b, pb, prop))
           /\ SignMessages(s, order) \in Seq([to : Nodes, msg : SignMessage])
<1> DEFINE I == {i \in DOMAIN order : ~ s.sgenerators[order[i]].sent}
           first == Select(order, I)
           D == DOMAIN s.sgenerators
           S == Sent(n, b, pb, prop)
           N == Len(first)
           all == [i \in 1..Len(first) |->
                    [kind |-> "sign", id |-> first[i], from |-> s.me,
                     proposer |-> s.sgenerators[first[i]].proposer]]
<1>1. /\ pb \in Nat /\ MaxPresigs \in Nat /\ 1..pb \subseteq PresigIds
      /\ D \subseteq prop /\ D \in SUBSET (1..pb)
  <2>1. pb \in Nat /\ MaxPresigs \in Nat /\ 1..pb \subseteq PresigIds
    BY Bounds DEF PresigIds
  <2>2. D \subseteq prop
    BY DEF Managed, SignsFit
  <2> QED
    BY <2>1, <2>2
<1>2. order \in Seq(D) /\ I \in SUBSET DOMAIN order
  BY <1>1, OrderLists
<1>3. SignMessages(s, order) = SendMany(all, Nodes)
  BY DEF SignMessages
<1> HIDE DEF I
<1>4. first \in Seq(D)
  <2> HIDE DEF D
  <2> QED
    BY <1>2, SelectAt
<1> HIDE DEF first
<1>5. N \in Nat
  BY <1>4, LenProperties
<1>6. ASSUME NEW i \in 1..N
      PROVE  all[i] \in S /\ all[i] \in SignMessage
  <2> DEFINE p == first[i]
             g == s.sgenerators[p]
  <2>1. p \in D
    BY <1>4, ElementOfSeq
  <2>2. /\ all[i] = [kind |-> "sign", id |-> p, from |-> s.me, proposer |-> g.proposer]
    OBVIOUS
  <2>3. p \in PresigIds /\ p \in prop /\ s.me = n /\ g \in SignProtocols
    BY <1>1, <2>1 DEF Managed, Shaped, SignsFit
  <2> HIDE DEF p, g, all, D
  <2>4. g.proposer \in Nodes
    BY <2>3 DEF SignProtocols
  <2>5. all[i] \in SignMessage /\ all[i].from = n /\ all[i].id \in prop /\ all[i].kind = "sign"
    BY <2>2, <2>3, <2>4 DEF SignMessage
  <2> QED
    BY <2>5 DEF Sent, MpcMessage
<1>7. all \in [1..N -> S] /\ all \in [1..N -> SignMessage]
  <2>1. all = [i \in 1..N |-> all[i]]
    OBVIOUS
  <2> HIDE DEF all, S, N
  <2> QED
    BY <1>6, <2>1
<1> HIDE DEF all, S, N
<1>8. all \in Seq(S) /\ all \in Seq(SignMessage)
  BY <1>5, <1>7
<1> QED
  BY <1>3, <1>8, SendManyTyped DEF Envelopes, S

-----------------------------------------------------------------------------
(* One turn of the loop.                                                    *)

\* Popping two ids, whatever comes of it: s is the managers after the pokes of
\* the triples.
LEMMA PresigGenerateFits ==
    ASSUME NEW s, NEW d, NEW n \in Nodes, NEW b \in 0..MaxTriples,
           pborn \in 0..MaxPresigs, NEW prop \in SUBSET (1..pborn),
           Managed(s, n, b, pborn, prop),
           d = IF CanPopTwo(s) THEN PresigGenerate(s, pborn + 1) ELSE s
    PROVE  LET pb == IF pborn + 1 \in DOMAIN d.pgenerators THEN pborn + 1 ELSE pborn
           IN /\ pb \in 0..MaxPresigs /\ pborn <= pb
              /\ Managed(d, n, b, pb, prop)
              /\ Drawn(d) \subseteq Drawn(s) \cup ((1..pb) \ (1..pborn))
<1>1. pborn \in Nat /\ MaxPresigs \in Nat
  BY Bounds
<1>2. pborn + 1 \notin DOMAIN s.pgenerators
  BY <1>1 DEF Managed, PresigsFit
<1>3. CASE ~ CanPopTwo(s)
  BY <1>1, <1>2, <1>3
<1>4. CASE CanPopTwo(s)
  <2>1. Len(s.mine) >= 2 /\ DOMAIN s = Fields /\ d = PresigGenerate(s, pborn + 1)
    BY <1>4 DEF CanPopTwo, Managed, Shaped
  <2>2. Gone(d, s) \/ Panicked(d, s) \/ Taken(d, s, pborn + 1)
    BY <2>1, PresigGenerateFields
  <2>3. CASE Gone(d, s) \/ Panicked(d, s)
    <3>1. Managed(d, n, b, pborn, prop) /\ Drawn(d) = Drawn(s)
          /\ DOMAIN d.pgenerators = DOMAIN s.pgenerators
      BY <2>1, <2>3, GoneFits
    <3> QED
      BY <1>1, <1>2, <3>1
  <2>4. CASE Taken(d, s, pborn + 1)
    <3>1. pborn < MaxPresigs
      BY <1>1, <1>4, <2>4 DEF CanPopTwo, Taken
    <3>2. /\ Managed(d, n, b, pborn + 1, prop) /\ Drawn(d) = Drawn(s) \cup {pborn + 1}
          /\ pborn + 1 \in DOMAIN d.pgenerators
      BY <2>1, <2>4, <3>1, TakenFits
    <3>3. pborn + 1 \in (1..(pborn + 1)) \ (1..pborn) /\ pborn + 1 \in 0..MaxPresigs
      BY <1>1, <3>1
    <3> QED
      BY <1>1, <3>2, <3>3
  <2> QED
    BY <2>2, <2>3, <2>4
<1> QED
  BY <1>3, <1>4

\* Starting a triple.
LEMMA StartFits ==
    ASSUME NEW s, NEW d, NEW n \in Nodes, NEW b \in 0..MaxTriples, NEW pb \in 0..MaxPresigs,
           NEW prop \in SUBSET (1..pb), b < MaxTriples, d = Generate(s, b + 1),
           Managed(s, n, b, pb, prop)
    PROVE  Managed(d, n, b + 1, pb, prop) /\ Drawn(d) = Drawn(s)
<1>1. Generated(d, s, b + 1)
  BY GenerateFields DEF Managed, Shaped
<1> DEFINE c == b + 1
<1>2. c = b + 1 /\ Generated(d, s, c)
  BY <1>1
<1> HIDE DEF c
<1>3. Managed(d, n, c, pb, prop) /\ Drawn(d) = Drawn(s)
  BY <1>2, GenerateFits
<1> QED
  BY <1>2, <1>3

\* The managers from the channel to the triples poked.
FirstHalf(n, s0, s1, o1, own, s2) ==
    /\ s0 = Push(node[n], channel[n])
    /\ s1 = IF WantsTriple(s0) THEN Generate(s0, born + 1) ELSE s0
    /\ o1 \in SetToSeqs(DOMAIN s1.generators)
    /\ s2 = Poke(s1, o1, own)

\* They keep what holds of them.
LEMMA FirstHalfFits ==
    ASSUME NEW n \in Nodes, born \in 0..MaxTriples, pborn \in 0..MaxPresigs,
           proposed \in SUBSET (1..pborn), Managed(node[n], n, born, pborn, proposed),
           ArrivedFit(channel[n], born, pborn, proposed),
           NEW s0, NEW s1, NEW o1, NEW own, NEW s2, FirstHalf(n, s0, s1, o1, own, s2)
    PROVE  LET b == IF WantsTriple(s0) THEN born + 1 ELSE born
           IN /\ b \in 0..MaxTriples /\ born <= b
              /\ Managed(s2, n, b, pborn, proposed) /\ Drawn(s2) = Drawn(node[n])
              /\ TripleMessages(s1, o1) \in Seq(Envelopes(n, b, pborn, proposed))
<1> USE DEF FirstHalf
<1> DEFINE b == IF WantsTriple(s0) THEN born + 1 ELSE born
<1>1. born \in Nat /\ MaxTriples \in Nat
  BY Bounds
<1>2. Pushed(s0, node[n], channel[n])
  BY PushFields DEF Managed, Shaped
<1>3. Managed(s0, n, born, pborn, proposed) /\ Drawn(s0) = Drawn(node[n])
  <2> HIDE DEF FirstHalf
  <2> QED
    BY <1>2, PushFits
<1>4. b \in 0..MaxTriples /\ born <= b /\ (WantsTriple(s0) => born < MaxTriples)
  BY <1>1 DEF WantsTriple
<1>5. Managed(s1, n, b, pborn, proposed) /\ Drawn(s1) = Drawn(node[n])
  <2>1. CASE WantsTriple(s0)
    <3>1. s1 = Generate(s0, born + 1) /\ b = born + 1 /\ born < MaxTriples
      BY <1>4, <2>1
    <3> HIDE DEF b
    <3>2. Managed(s1, n, born + 1, pborn, proposed) /\ Drawn(s1) = Drawn(s0)
      BY <1>3, <3>1, StartFits
    <3> QED
      BY <1>3, <3>1, <3>2
  <2>2. CASE ~ WantsTriple(s0)
    BY <1>3, <2>2
  <2> QED
    BY <2>1, <2>2
<1> HIDE DEF b
<1>6. Poked(s2, s1, o1, own)
  BY <1>5, PokeFields DEF Managed, Shaped
<1>7. Managed(s2, n, b, pborn, proposed) /\ Drawn(s2) = Drawn(s1)
  BY <1>4, <1>5, <1>6, PokeFits
<1>8. TripleMessages(s1, o1) \in Seq(Envelopes(n, b, pborn, proposed))
  BY <1>4, <1>5, TripleMessagesTyped
<1> QED
  BY <1>4, <1>5, <1>7, <1>8 DEF b

\* The managers from the presignatures poked to the end of handle, or of progress
\* when publish fails.
SecondHalf(s3, o2, s4, k, s5, o3, s6, J, s7) ==
    /\ o2 \in SetToSeqs(DOMAIN s3.pgenerators)
    /\ s4 = PresigPoke(s3, o2)
    /\ k \in 0..Len(s4.pmine)
    /\ s5 = SignGenerate(s4, k)
    /\ o3 \in SetToSeqs(DOMAIN s5.sgenerators)
    /\ s6 = HandleTriples(SignPoke(s5))
    /\ J \in JoinSets(s6)
    /\ s7 \in {HandleSigns(HandlePresigs(s6, J)), SignPoke(s5)}

\* So do they.
LEMMA SecondHalfFits ==
    ASSUME NEW n \in Nodes, NEW b \in 0..MaxTriples, NEW pb \in 0..MaxPresigs,
           NEW prop \in SUBSET (1..pb), NEW s3, Managed(s3, n, b, pb, prop),
           NEW o2, NEW s4, NEW k, NEW s5, NEW o3, NEW s6, NEW J, NEW s7,
           SecondHalf(s3, o2, s4, k, s5, o3, s6, J, s7)
    PROVE  LET P == Firsts(s4.pmine, k)
           IN /\ P \subseteq Drawn(s3) /\ prop \cup P \in SUBSET (1..pb)
              /\ Managed(s7, n, b, pb, prop \cup P) /\ Drawn(s7) \subseteq Drawn(s3)
              /\ PresigMessages(s3, o2) \in Seq(Envelopes(n, b, pb, prop))
              /\ SignMessages(s5, o3) \in Seq(Envelopes(n, b, pb, prop \cup P))
<1> USE DEF SecondHalf
<1> DEFINE P == Firsts(s4.pmine, k)
           s56 == SignPoke(s5)
           s67 == HandlePresigs(s6, J)
<1>1. PresigPoked(s4, s3, o2)
  BY PresigPokeFields DEF Managed, Shaped
<1>2. Managed(s4, n, b, pb, prop) /\ Drawn(s4) \subseteq Drawn(s3)
  BY <1>1, PresigPokeFits
<1>3. SignGenerated(s5, s4, k)
  BY <1>2, SignGenerateFields DEF Managed, Shaped
<1>4. /\ Managed(s5, n, b, pb, prop \cup P) /\ P \subseteq Drawn(s4) /\ P \subseteq 1..pb
      /\ Drawn(s5) \subseteq Drawn(s4)
  BY <1>2, <1>3, SignGenerateFits
<1> HIDE DEF P, s56, s67
<1>5. prop \cup P \in SUBSET (1..pb)
  BY <1>4
<1>6. SignPoked(s56, s5)
  BY <1>4, SignPokeFields DEF Managed, Shaped, s56
<1>7. Managed(s56, n, b, pb, prop \cup P) /\ Drawn(s56) = Drawn(s5)
  BY <1>4, <1>5, <1>6, SignPokeFits
<1>8. HandledTriples(s6, s56)
  BY <1>7, HandleTriplesFields DEF Managed, Shaped, s56
<1>9. Managed(s6, n, b, pb, prop \cup P) /\ Drawn(s6) = Drawn(s56)
  BY <1>5, <1>7, <1>8, HandleTriplesFits
<1>10. HandledPresigs(s67, s6, J)
  BY <1>9, HandlePresigsFields DEF Managed, Shaped, s67
<1>11. Managed(s67, n, b, pb, prop \cup P) /\ Drawn(s67) = Drawn(s6)
  BY <1>5, <1>9, <1>10, HandlePresigsFits
<1>12. HandledSigns(HandleSigns(s67), s67)
  BY <1>11, HandleSignsFields DEF Managed, Shaped
<1>13. Managed(s7, n, b, pb, prop \cup P) /\ Drawn(s7) = Drawn(s5)
  <2>1. CASE s7 = HandleSigns(s67)
    BY <1>5, <1>7, <1>9, <1>11, <1>12, <2>1, HandleSignsFits
  <2>2. CASE s7 = s56
    BY <1>7, <2>2
  <2> QED
    BY <2>1, <2>2 DEF s56, s67
<1>14. /\ PresigMessages(s3, o2) \in Seq(Envelopes(n, b, pb, prop))
       /\ SignMessages(s5, o3) \in Seq(Envelopes(n, b, pb, prop \cup P))
  BY <1>4, <1>5, PresigMessagesTyped, SignMessagesTyped
<1> QED
  BY <1>2, <1>4, <1>5, <1>7, <1>9, <1>11, <1>13, <1>14 DEF P

\* Envelopes stay what they are when more ids are drawn.
LEMMA EnvelopesGrow ==
    ASSUME NEW q, NEW b \in 0..MaxTriples, NEW pb \in 0..MaxPresigs, NEW prop,
           NEW b2 \in 0..MaxTriples, NEW pb2 \in 0..MaxPresigs, NEW prop2,
           b <= b2, pb <= pb2, prop \subseteq prop2
    PROVE  /\ Seq(Sent(q, b, pb, prop)) \subseteq Seq(Sent(q, b2, pb2, prop2))
           /\ Seq(Envelopes(q, b, pb, prop)) \subseteq Seq(Envelopes(q, b2, pb2, prop2))
<1>1. Sent(q, b, pb, prop) \subseteq Sent(q, b2, pb2, prop2)
  BY SentGrows
<1>2. Envelopes(q, b, pb, prop) \subseteq Envelopes(q, b2, pb2, prop2)
  BY <1>1 DEF Envelopes
<1> QED
  BY <1>1, <1>2, SeqMonotonic

-----------------------------------------------------------------------------
(* The inductive invariant.                                                 *)

NodesFit == DOMAIN node = Nodes /\ \A n \in Nodes : Managed(node[n], n, born, pborn, proposed)

\* No two nodes have drawn the same presignature.
DrawnApart ==
    \A m, n \in Nodes : m # n => Drawn(node[m]) \cap Drawn(node[n]) = {}

QueuesFit ==
    /\ DOMAIN outbox = Nodes /\ DOMAIN channel = Nodes
    /\ \A n \in Nodes : outbox[n] \in Seq(Envelopes(n, born, pborn, proposed))
    /\ \A n \in Nodes : DOMAIN channel[n] = Nodes
    /\ \A n, q \in Nodes : channel[n][q] \in Seq(Sent(q, born, pborn, proposed))

IInv ==
    /\ born \in 0..MaxTriples /\ pborn \in 0..MaxPresigs /\ proposed \in SUBSET (1..pborn)
    /\ NodesFit /\ DrawnApart /\ QueuesFit

\* A turn of node n in parts, the intermediate managers named: how it ends,
Ends(n, s0, s1, o1, own, s3, o2, s4, k, s5, o3, drop, s7) ==
    /\ node' = [node EXCEPT ![n] = IF s3.panicked THEN s3 ELSE s7]
    /\ channel' = [channel EXCEPT ![n] = EmptyBin]
    /\ outbox' = [outbox EXCEPT ![n] =
          IF s3.panicked THEN <<>>
          ELSE @ \o TripleMessages(s1, o1) \o PresigMessages(s3, o2)
                 \o SignMessages(s5, o3)]
    /\ born' = IF WantsTriple(s0) THEN born + 1 ELSE born
    /\ pborn' = IF pborn + 1 \in DOMAIN s3.pgenerators THEN pborn + 1 ELSE pborn
    /\ proposed' = IF s3.panicked THEN proposed
                   ELSE proposed \cup {s4.pmine[i] : i \in 1..k}
    /\ owner' = own
    /\ lost' = IF s3.panicked THEN lost ELSE lost \cup drop
    /\ UNCHANGED repeats

\* and what comes before, from the signatures on.
Handles(n, s0, s1, o1, own, s3, o2, s4, k) ==
    \E s5 \in {SignGenerate(s4, k)} : \E o3 \in SetToSeqs(DOMAIN s5.sgenerators) :
    \E s6 \in {HandleTriples(SignPoke(s5))} : \E J \in JoinSets(s6) :
    \E drop \in Dropped(s5) :
    \E s7 \in {IF drop = {} THEN HandleSigns(HandlePresigs(s6, J)) ELSE SignPoke(s5)} :
        Ends(n, s0, s1, o1, own, s3, o2, s4, k, s5, o3, drop, s7)

\* The turn from the triples that finished on.
Presigns(n, s0, s1, o1, own, s2) ==
    \E s3 \in {IF CanPopTwo(s2) THEN PresigGenerate(s2, pborn + 1) ELSE s2} :
    \E o2 \in SetToSeqs(DOMAIN s3.pgenerators) :
    \E s4 \in {PresigPoke(s3, o2)} : \E k \in Served(s4) :
        Handles(n, s0, s1, o1, own, s3, o2, s4, k)

\* A turn of the loop, taken apart: the channel is drained, a triple started and
\* the generators poked, then come presignatures, signatures and the rest.
LEMMA IterateStages ==
    ASSUME NEW n \in Nodes, Iterate(n)
    PROVE  ~ node[n].panicked /\
           \E s0 \in {Push(node[n], channel[n])} :
           \E s1 \in {IF WantsTriple(s0) THEN Generate(s0, born + 1) ELSE s0} :
           \E o1 \in SetToSeqs(DOMAIN s1.generators), own \in Owners(s1) :
           \E s2 \in {Poke(s1, o1, own)} : Presigns(n, s0, s1, o1, own, s2)
  BY Zenon DEF Iterate, Presigns, Handles, Ends

\* The second part of a turn: all of progress and handle, or handle left out.
LEMMA HandlesStages ==
    ASSUME NEW n, NEW s0, NEW s1, NEW o1, NEW own, NEW s3, NEW o2, NEW s4, NEW k,
           Handles(n, s0, s1, o1, own, s3, o2, s4, k)
    PROVE  \E s5, o3, s6, J, drop, s7 :
             /\ s5 = SignGenerate(s4, k) /\ o3 \in SetToSeqs(DOMAIN s5.sgenerators)
             /\ s6 = HandleTriples(SignPoke(s5)) /\ J \in JoinSets(s6)
             /\ s7 \in {HandleSigns(HandlePresigs(s6, J)), SignPoke(s5)}
             /\ Ends(n, s0, s1, o1, own, s3, o2, s4, k, s5, o3, drop, s7)
  BY DEF Handles

\* The initial state.
LEMMA InitFits == Init => IInv
<1> SUFFICES ASSUME Init PROVE IInv
  OBVIOUS
<1>1. born = 0 /\ pborn = 0 /\ proposed = {} /\ MaxTriples \in Nat /\ MaxPresigs \in Nat
      /\ MaxRuns \in Nat
  BY Bounds DEF Init
<1>2. DOMAIN node = Nodes /\ \A n \in Nodes : node[n] = NewManagers(n)
  BY DEF Init
<1>3. ASSUME NEW n \in Nodes
      PROVE  /\ Managed(node[n], n, born, pborn, proposed)
             /\ Drawn(node[n]) = {}
  <2> DEFINE s == NewManagers(n)
  <2>1. /\ DOMAIN s = Fields /\ s.me = n /\ s.triples = <<>> /\ s.generators = <<>>
        /\ s.mine = <<>> /\ s.bins = <<>> /\ s.presignatures = {} /\ s.pgenerators = <<>>
        /\ s.pmine = <<>> /\ s.pbins = <<>> /\ s.sgenerators = <<>> /\ s.sbins = <<>>
        /\ s.run = [t \in TripleIds |-> 0] /\ s.used = {}
    BY DEF NewManagers, Fields
  <2> HIDE DEF s
  <2>2. DOMAIN <<>> = {}
    OBVIOUS
  <2>3. Shaped(s, n) /\ SpentOnce(s, 0)
    BY <1>1, <2>1 DEF Shaped, SpentOnce
  <2>4. TriplesFit(s, 0)
    BY <2>1, <2>2 DEF TriplesFit
  <2>5. PresigsFit(s, 0, 0) /\ SignsFit(s, {})
    BY <2>1, <2>2 DEF PresigsFit, SignsFit
  <2>6. Drawn(s) = {}
    BY <2>1, <2>2 DEF Drawn, ToSet
  <2>7. MineFit(s, {})
    BY <2>1, <2>2, <2>6 DEF MineFit, IsInjective
  <2> QED
    BY <1>1, <1>2, <2>3, <2>4, <2>5, <2>6, <2>7 DEF Managed, s
<1>4. QueuesFit
  BY DEF Init, QueuesFit, EmptyBin
<1> QED
  BY <1>1, <1>2, <1>3, <1>4 DEF IInv, NodesFit, DrawnApart

\* A turn.
LEMMA IterateFits ==
    ASSUME IInv, NEW n \in Nodes, Iterate(n)
    PROVE  IInv'
<1>1. /\ born \in 0..MaxTriples /\ pborn \in 0..MaxPresigs /\ proposed \in SUBSET (1..pborn)
      /\ DOMAIN node = Nodes
      /\ \A q \in Nodes : Managed(node[q], q, born, pborn, proposed)
      /\ \A p, q \in Nodes : p # q => Drawn(node[p]) \cap Drawn(node[q]) = {}
      /\ DOMAIN outbox = Nodes /\ DOMAIN channel = Nodes
      /\ \A q \in Nodes : outbox[q] \in Seq(Envelopes(q, born, pborn, proposed))
      /\ \A q \in Nodes : DOMAIN channel[q] = Nodes
      /\ \A p, q \in Nodes : channel[p][q] \in Seq(Sent(q, born, pborn, proposed))
  BY DEF IInv, NodesFit, DrawnApart, QueuesFit
<1>2. PICK s0, s1, o1, own, s2 :
        /\ s0 = Push(node[n], channel[n])
        /\ s1 = IF WantsTriple(s0) THEN Generate(s0, born + 1) ELSE s0
        /\ o1 \in SetToSeqs(DOMAIN s1.generators)
        /\ s2 = Poke(s1, o1, own)
        /\ Presigns(n, s0, s1, o1, own, s2)
  BY IterateStages
<1>3. PICK s3, o2, s4, k :
        /\ s3 = IF CanPopTwo(s2) THEN PresigGenerate(s2, pborn + 1) ELSE s2
        /\ o2 \in SetToSeqs(DOMAIN s3.pgenerators)
        /\ s4 = PresigPoke(s3, o2) /\ k \in Served(s4)
        /\ Handles(n, s0, s1, o1, own, s3, o2, s4, k)
  BY <1>2 DEF Presigns
<1> DEFINE P == {s4.pmine[i] : i \in 1..k}
<1>4. PICK s5, o3, s6, J, drop, s7 :
        /\ s5 = SignGenerate(s4, k) /\ o3 \in SetToSeqs(DOMAIN s5.sgenerators)
        /\ s6 = HandleTriples(SignPoke(s5)) /\ J \in JoinSets(s6)
        /\ s7 \in {HandleSigns(HandlePresigs(s6, J)), SignPoke(s5)}
        /\ Ends(n, s0, s1, o1, own, s3, o2, s4, k, s5, o3, drop, s7)
  BY <1>3, HandlesStages
<1>4a. /\ node' = [node EXCEPT ![n] = IF s3.panicked THEN s3 ELSE s7]
       /\ channel' = [channel EXCEPT ![n] = EmptyBin]
       /\ outbox' = [outbox EXCEPT ![n] =
             IF s3.panicked THEN <<>>
             ELSE outbox[n] \o TripleMessages(s1, o1) \o PresigMessages(s3, o2)
                            \o SignMessages(s5, o3)]
       /\ born' = IF WantsTriple(s0) THEN born + 1 ELSE born
       /\ pborn' = IF pborn + 1 \in DOMAIN s3.pgenerators THEN pborn + 1 ELSE pborn
       /\ proposed' = IF s3.panicked THEN proposed ELSE proposed \cup P
  BY <1>4 DEF Ends
<1>5. P = Firsts(s4.pmine, k)
  BY DEF Firsts
<1> HIDE DEF P
<1>6. k \in 0..Len(s4.pmine)
  BY <1>3 DEF Served
<1>7. /\ born' \in 0..MaxTriples /\ born <= born'
      /\ Managed(s2, n, born', pborn, proposed) /\ Drawn(s2) = Drawn(node[n])
      /\ TripleMessages(s1, o1) \in Seq(Envelopes(n, born', pborn, proposed))
  <2> DEFINE b == IF WantsTriple(s0) THEN born + 1 ELSE born
  <2>1. /\ Managed(node[n], n, born, pborn, proposed)
        /\ ArrivedFit(channel[n], born, pborn, proposed)
    BY <1>1 DEF ArrivedFit
  <2>2. /\ b \in 0..MaxTriples /\ born <= b
        /\ Managed(s2, n, b, pborn, proposed) /\ Drawn(s2) = Drawn(node[n])
        /\ TripleMessages(s1, o1) \in Seq(Envelopes(n, b, pborn, proposed))
    <3>1. /\ born \in 0..MaxTriples /\ pborn \in 0..MaxPresigs
          /\ proposed \in SUBSET (1..pborn)
      BY <1>1
    <3>2. FirstHalf(n, s0, s1, o1, own, s2)
      BY <1>2 DEF FirstHalf
    <3> QED
      BY <2>1, <3>1, <3>2, FirstHalfFits
  <2>3. born' = b
    BY <1>4a
  <2> HIDE DEF b
  <2> QED
    BY <2>2, <2>3
<1>8. /\ pborn' \in 0..MaxPresigs /\ pborn <= pborn'
      /\ Managed(s3, n, born', pborn', proposed)
      /\ Drawn(s3) \subseteq Drawn(node[n]) \cup ((1..pborn') \ (1..pborn))
  <2>1. pborn' = IF pborn + 1 \in DOMAIN s3.pgenerators THEN pborn + 1 ELSE pborn
    BY <1>4a
  <2>2. s3 = IF CanPopTwo(s2) THEN PresigGenerate(s2, pborn + 1) ELSE s2
    BY <1>3
  <2> QED
    <3> DEFINE pb == IF pborn + 1 \in DOMAIN s3.pgenerators THEN pborn + 1 ELSE pborn
    <3>1. /\ pborn \in 0..MaxPresigs /\ proposed \in SUBSET (1..pborn)
          /\ born' \in 0..MaxTriples /\ Managed(s2, n, born', pborn, proposed)
      BY <1>1, <1>7
    <3>2. /\ pb \in 0..MaxPresigs /\ pborn <= pb /\ Managed(s3, n, born', pb, proposed)
          /\ Drawn(s3) \subseteq Drawn(s2) \cup ((1..pb) \ (1..pborn))
      BY <2>2, <3>1, PresigGenerateFits
    <3>3. pborn' = pb /\ Drawn(s2) = Drawn(node[n])
      BY <1>7, <2>1
    <3> HIDE DEF pb
    <3> QED
      BY <3>2, <3>3
<1>9. proposed \in SUBSET (1..pborn')
  BY <1>1, <1>8, Bounds
<1>10. /\ P \subseteq Drawn(s3) /\ proposed \cup P \in SUBSET (1..pborn')
       /\ Managed(s7, n, born', pborn', proposed \cup P) /\ Drawn(s7) \subseteq Drawn(s3)
       /\ PresigMessages(s3, o2) \in Seq(Envelopes(n, born', pborn', proposed))
       /\ SignMessages(s5, o3) \in Seq(Envelopes(n, born', pborn', proposed \cup P))
  <2>1. SecondHalf(s3, o2, s4, k, s5, o3, s6, J, s7)
    BY <1>3, <1>4, <1>6 DEF SecondHalf
  <2>3. born' \in 0..MaxTriples /\ pborn' \in 0..MaxPresigs
    BY <1>7, <1>8
  <2>4. Managed(s3, n, born', pborn', proposed)
    BY <1>8
  <2> QED
    BY <1>5, <1>9, <2>1, <2>3, <2>4, SecondHalfFits
<1>11. /\ proposed' \in SUBSET (1..pborn') /\ proposed \subseteq proposed'
       /\ proposed' \subseteq proposed \cup Drawn(s3)
       /\ Managed(node'[n], n, born', pborn', proposed') /\ Drawn(node'[n]) \subseteq Drawn(s3)
  BY <1>1, <1>4a, <1>8, <1>9, <1>10
<1>12. \A q \in Nodes \ {n} : /\ node'[q] = node[q] /\ channel'[q] = channel[q]
                              /\ outbox'[q] = outbox[q]
                              /\ Drawn(node[q]) \subseteq 1..pborn
                              /\ Drawn(node[q]) \cap Drawn(s3) = {}
                              /\ Drawn(node[q]) \cap proposed = {}
  <2> TAKE q \in Nodes \ {n}
  <2>1. node'[q] = node[q] /\ channel'[q] = channel[q] /\ outbox'[q] = outbox[q]
    BY <1>1, <1>4a
  <2>2. Managed(node[q], q, born, pborn, proposed)
    BY <1>1
  <2>3. Drawn(node[q]) \cap proposed = {}
    BY <2>2 DEF Managed, MineFit
  <2>4. ToSet(node[q].pmine) \subseteq node[q].presignatures
    BY <2>2, ElementOfSeq, LenProperties DEF Managed, MineFit, ToSet
  <2>5. Drawn(node[q]) \subseteq 1..pborn
    BY <2>2, <2>4 DEF Managed, PresigsFit, Drawn
  <2> QED
    BY <1>1, <1>8, <2>1, <2>3, <2>5
<1>13. NodesFit'
  <2>1. ASSUME NEW q \in Nodes \ {n}
        PROVE  Managed(node'[q], q, born', pborn', proposed')
    <3>1. Drawn(node[q]) \cap proposed' = {}
      BY <1>11, <1>12
    <3> QED
      BY <1>1, <1>7, <1>8, <1>11, <1>12, <3>1, ManagedGrows
  <2>2. DOMAIN node' = Nodes
    BY <1>1, <1>4a
  <2> QED
    BY <1>11, <2>1, <2>2 DEF NodesFit
<1>14. DrawnApart'
  BY <1>1, <1>11, <1>12 DEF DrawnApart
<1>15. QueuesFit'
  <2> DEFINE E == Envelopes(n, born', pborn', proposed')
  <2>1. /\ DOMAIN outbox' = Nodes /\ DOMAIN channel' = Nodes
        /\ \A q \in Nodes : DOMAIN channel'[q] = Nodes
    BY <1>1, <1>4a DEF EmptyBin
  <2>2. \A q \in Nodes :
          /\ Seq(Sent(q, born, pborn, proposed)) \subseteq Seq(Sent(q, born', pborn', proposed'))
          /\ Seq(Envelopes(q, born, pborn, proposed)) \subseteq
                Seq(Envelopes(q, born', pborn', proposed'))
    BY <1>1, <1>7, <1>8, <1>11, EnvelopesGrow
  <2>3. \A p, q \in Nodes : channel'[p][q] \in Seq(Sent(q, born', pborn', proposed'))
    <3> SUFFICES ASSUME NEW p \in Nodes, NEW q \in Nodes
                 PROVE  channel'[p][q] \in Seq(Sent(q, born', pborn', proposed'))
      OBVIOUS
    <3>1. CASE p = n
      <4>1. channel'[p][q] = <<>>
        BY <1>1, <1>4a, <3>1 DEF EmptyBin
      <4> QED
        BY <4>1
    <3>2. CASE p # n
      BY <1>1, <1>12, <2>2, <3>2
    <3> QED
      BY <3>1, <3>2
  <2>4. outbox'[n] \in Seq(E)
    <3>1. CASE s3.panicked
      <4>1. outbox'[n] = <<>>
        BY <1>1, <1>4a, <3>1
      <4> QED
        BY <4>1
    <3>2. CASE ~ s3.panicked
      <4>1. /\ proposed' = proposed \cup P
            /\ outbox'[n] = outbox[n] \o TripleMessages(s1, o1) \o PresigMessages(s3, o2)
                                      \o SignMessages(s5, o3)
        BY <1>1, <1>4a, <3>2
      <4>2. outbox[n] \in Seq(E)
        BY <1>1, <2>2
      <4>3. TripleMessages(s1, o1) \in Seq(E)
        <5>1. born' <= born'
          BY <1>7, Bounds
        <5> QED
          BY <1>1, <1>7, <1>8, <1>11, <5>1, EnvelopesGrow
      <4>4. PresigMessages(s3, o2) \in Seq(E)
        <5>1. born' <= born' /\ pborn' <= pborn'
          BY <1>7, <1>8, Bounds
        <5> QED
          BY <1>7, <1>8, <1>10, <1>11, <5>1, EnvelopesGrow
      <4>5. SignMessages(s5, o3) \in Seq(E)
        BY <1>10, <4>1
      <4> HIDE DEF E
      <4> QED
        BY <4>1, <4>2, <4>3, <4>4, <4>5, ConcatProperties
    <3> QED
      BY <3>1, <3>2
  <2>5. \A q \in Nodes : outbox'[q] \in Seq(Envelopes(q, born', pborn', proposed'))
    BY <1>1, <1>12, <2>2, <2>4
  <2> QED
    BY <2>1, <2>3, <2>5 DEF QueuesFit
<1> QED
  BY <1>7, <1>8, <1>11, <1>13, <1>14, <1>15 DEF IInv

\* A message that arrives, for the first time or again.
LEMMA ArriveFits ==
    ASSUME IInv, NEW n \in Nodes, Arrive(n)
    PROVE  IInv'
<1> DEFINE m == Head(outbox[n])
           E == Envelopes(n, born, pborn, proposed)
<1>1. UNCHANGED <<node, born, pborn, proposed>>
  BY DEF Arrive
<1>2. NodesFit' /\ DrawnApart'
  BY <1>1 DEF IInv, NodesFit, DrawnApart
<1>3. /\ outbox[n] \in Seq(E) /\ outbox[n] # <<>>
      /\ DOMAIN outbox = Nodes /\ DOMAIN channel = Nodes
      /\ \A q \in Nodes : DOMAIN channel[q] = Nodes
      /\ \A p, q \in Nodes : channel[p][q] \in Seq(Sent(q, born, pborn, proposed))
      /\ \A q \in Nodes : outbox[q] \in Seq(Envelopes(q, born, pborn, proposed))
  BY DEF IInv, QueuesFit, Arrive
<1>4. m \in E /\ Tail(outbox[n]) \in Seq(E)
  <2> HIDE DEF E
  <2> QED
    BY <1>3, HeadTailProperties
<1>5. m.to \in Nodes /\ m.msg \in Sent(n, born, pborn, proposed)
  BY <1>4 DEF Envelopes
<1>6. channel' = [channel EXCEPT ![m.to][n] = Append(@, m.msg)]
  BY DEF Arrive, SendEncrypted
<1> HIDE DEF m
<1>7. Append(channel[m.to][n], m.msg) \in Seq(Sent(n, born, pborn, proposed))
  BY <1>3, <1>5, AppendProperties
<1>8. /\ DOMAIN channel' = Nodes /\ \A q \in Nodes : DOMAIN channel'[q] = Nodes
      /\ \A p, q \in Nodes : channel'[p][q] \in Seq(Sent(q, born, pborn, proposed))
  BY <1>3, <1>5, <1>6, <1>7
<1>9. outbox' = [outbox EXCEPT ![n] = Tail(outbox[n])] \/ outbox' = outbox
  BY DEF Arrive
<1>10. /\ DOMAIN outbox' = Nodes
       /\ \A q \in Nodes : outbox'[q] \in Seq(Envelopes(q, born, pborn, proposed))
  BY <1>3, <1>4, <1>9
<1>11. QueuesFit'
  BY <1>1, <1>8, <1>10 DEF QueuesFit
<1> QED
  BY <1>1, <1>2, <1>11 DEF IInv

\* The inductive invariant holds in every state the nodes reach.
THEOREM RunningInvariant == Spec => []IInv
<1>1. IInv /\ [Next]_vars => IInv'
  <2> SUFFICES ASSUME IInv, [Next]_vars PROVE IInv'
    OBVIOUS
  <2>1. ASSUME NEW n \in Nodes, Iterate(n) PROVE IInv'
    BY <2>1, IterateFits
  <2>2. ASSUME NEW n \in Nodes, Arrive(n) PROVE IInv'
    BY <2>2, ArriveFits
  <2>3. CASE UNCHANGED vars
    BY <2>3 DEF vars, IInv, NodesFit, DrawnApart, QueuesFit
  <2> QED
    BY <2>1, <2>2, <2>3 DEF Next
<1> QED
  BY InitFits, <1>1, PTL DEF Spec

\* The managers, bins and queues of every node hold what their types say,
\* whatever the nodes, the bounds and the order of turns and messages.
THEOREM RunningTypes == Spec => []TypeOK
<1>1. IInv => TypeOK
  <2> SUFFICES ASSUME IInv PROVE TypeOK
    OBVIOUS
  <2>1. born \in 0..MaxTriples /\ pborn \in 0..MaxPresigs /\ proposed \subseteq 1..pborn
    BY DEF IInv
  <2>2. ASSUME NEW n \in Nodes
        PROVE  LET s == node[n] IN
               /\ DOMAIN s.triples \cup DOMAIN s.generators \cup DOMAIN s.bins \subseteq 1..born
               /\ s.presignatures \cup DOMAIN s.pgenerators \cup DOMAIN s.pbins
                    \subseteq 1..pborn
               /\ s.presignatures \cap DOMAIN s.pgenerators = {}
               /\ DOMAIN s.triples \cap DOMAIN s.generators = {}
    BY DEF IInv, NodesFit, Managed, TriplesFit, PresigsFit
  <2>3. ASSUME NEW n \in Nodes PROVE ToSet(node[n].mine) \subseteq 1..born
    <3>1. node[n].mine \in Seq(1..born)
      BY DEF IInv, NodesFit, Managed, TriplesFit
    <3> QED
      BY <3>1, ElementOfSeq, LenProperties DEF ToSet
  <2>4. ASSUME NEW n \in Nodes, NEW q \in Nodes
        PROVE  ToSet(channel[n][q]) \subseteq {m \in MpcMessage : m.from = q}
    <3> DEFINE S == Sent(q, born, pborn, proposed)
    <3>1. channel[n][q] \in Seq(S)
      BY DEF IInv, QueuesFit
    <3>2. S \subseteq {m \in MpcMessage : m.from = q}
      BY DEF Sent
    <3> HIDE DEF S
    <3>3. ToSet(channel[n][q]) \subseteq S
      BY <3>1, ElementOfSeq, LenProperties DEF ToSet
    <3> QED
      BY <3>2, <3>3
  <2>5. ASSUME NEW n \in Nodes, NEW i \in 1..Len(outbox[n])
        PROVE  outbox[n][i].to \in Nodes /\ outbox[n][i].msg \in MpcMessage
    <3> DEFINE E == Envelopes(n, born, pborn, proposed)
    <3>1. outbox[n] \in Seq(E)
      BY DEF IInv, QueuesFit
    <3>2. \A e \in E : e.to \in Nodes /\ e.msg \in MpcMessage
      BY DEF Envelopes, Sent
    <3> HIDE DEF E
    <3> QED
      BY <3>1, <3>2, ElementOfSeq
  <2> QED
    BY <2>1, <2>2, <2>3, <2>4, <2>5 DEF TypeOK
<1> QED
  BY RunningInvariant, <1>1, PTL

\* take_two and take_two_mine never hand out the same triple for two protocols:
\* at every node the share of a run of a triple serves one presignature and is
\* not held any more, although get_or_generate runs spent ids again and messages
\* may arrive twice.
THEOREM SharesSpentOnce == Spec => []ShareSpentOnce
<1>1. IInv => ShareSpentOnce
  <2> SUFFICES ASSUME IInv, NEW n \in Nodes, NEW u \in node[n].used
               PROVE  /\ \A v \in node[n].used :
                           u.triple = v.triple /\ u.run = v.run => u.presig = v.presig
                      /\ u.triple \in DOMAIN node[n].triples => u.run # node[n].run[u.triple]
    BY DEF ShareSpentOnce
  <2>1. SpentOnce(node[n], born)
    BY DEF IInv, NodesFit, Managed
  <2> QED
    BY <2>1 DEF SpentOnce
<1> QED
  BY RunningInvariant, <1>1, PTL

\* The unwrap of take_mine never fails: what the list of own presignatures names
\* is held, for no message of a signature names a presignature before its owner
\* has taken it off that list.
THEOREM MineIsPresent == Spec => []MinePresent
<1>1. IInv => MinePresent
  <2> SUFFICES ASSUME IInv, NEW n \in Nodes
               PROVE  ToSet(node[n].pmine) \subseteq node[n].presignatures
    BY DEF MinePresent
  <2>1. node[n].pmine \in Seq(node[n].presignatures)
    BY DEF IInv, NodesFit, Managed, MineFit
  <2> QED
    BY <2>1, ElementOfSeq, LenProperties DEF ToSet
<1> QED
  BY RunningInvariant, <1>1, PTL

-----------------------------------------------------------------------------
(* Messages of one run do not end up in another.                            *)

\* No element of f is in M; at most one is.
None(f, M) == \A i \in DOMAIN f : f[i] \notin M
Once(f, M) == \A i, j \in DOMAIN f : f[i] \in M /\ f[j] \in M => i = j

\* In two sequences, one after the other.
LEMMA ConcatOnce ==
    ASSUME NEW S, NEW f \in Seq(S), NEW g \in Seq(S), NEW M
    PROVE  /\ None(f \o g, M) <=> None(f, M) /\ None(g, M)
           /\ Once(f, M) /\ None(g, M) => Once(f \o g, M)
           /\ None(f, M) /\ Once(g, M) => Once(f \o g, M)
<1> DEFINE h == f \o g
           K == Len(f)
           N == Len(g)
<1>1. /\ K \in Nat /\ N \in Nat /\ DOMAIN f = 1..K /\ DOMAIN g = 1..N
      /\ h \in Seq(S) /\ Len(h) = K + N /\ DOMAIN h = 1..(K + N)
  BY LenProperties, ConcatProperties
<1>2. \A i \in 1..(K + N) : \/ i \in 1..K /\ h[i] = f[i]
                            \/ i - K \in 1..N /\ h[i] = g[i - K]
  BY <1>1, ConcatProperties
<1>3. \A i \in 1..K : i \in 1..(K + N) /\ h[i] = f[i]
  BY <1>1, ConcatProperties
<1>4. \A i \in 1..N : i + K \in 1..(K + N) /\ h[i + K] = g[i]
  BY <1>1, ConcatProperties
<1> HIDE DEF h, K, N
<1>5. None(h, M) <=> None(f, M) /\ None(g, M)
  BY <1>1, <1>2, <1>3, <1>4 DEF None
<1>6. ASSUME Once(f, M), None(g, M)
      PROVE  Once(h, M)
  BY <1>1, <1>2, <1>6 DEF None, Once
<1>7. ASSUME None(f, M), Once(g, M)
      PROVE  Once(h, M)
  <2> SUFFICES ASSUME NEW i \in 1..(K + N), NEW j \in 1..(K + N), h[i] \in M, h[j] \in M
               PROVE  i = j
    BY <1>1 DEF Once
  <2>1. i - K \in 1..N /\ h[i] = g[i - K] /\ j - K \in 1..N /\ h[j] = g[j - K]
    BY <1>1, <1>2, <1>7 DEF None
  <2>2. i - K = j - K
    BY <1>1, <1>7, <2>1 DEF Once
  <2> QED
    BY <1>1, <2>2
<1> QED
  BY <1>5, <1>6, <1>7 DEF h

\* In a selection.
LEMMA SelectOnce ==
    ASSUME NEW S, NEW f \in Seq(S), NEW I \in SUBSET DOMAIN f, NEW M
    PROVE  /\ (\A i \in I : f[i] \notin M) => None(Select(f, I), M)
           /\ None(f, M) => None(Select(f, I), M)
           /\ Once(f, M) => Once(Select(f, I), M)
           /\ (\A i \in I : f[i] \in M) /\ Select(f, I) = <<>> => I = {}
<1> DEFINE g == Select(f, I)
           N == Cardinality(I)
<1>1. /\ g \in Seq(S) /\ N \in Nat /\ Len(g) = N
      /\ \E at \in Bijection(1..N, I) : \A k \in 1..N : g[k] = f[at[k]]
  BY SelectAt
<1>2. PICK at \in Bijection(1..N, I) : \A k \in 1..N : g[k] = f[at[k]]
  BY <1>1
<1>3. DOMAIN g = 1..N
  BY <1>1, LenProperties
<1>4. /\ \A k \in 1..N : at[k] \in I /\ at[k] \in DOMAIN f
      /\ \A k, l \in 1..N : at[k] = at[l] => k = l
      /\ \A i \in I : \E k \in 1..N : at[k] = i
  BY <1>2 DEF Bijection, Injection, Surjection, IsInjective
<1> HIDE DEF g, N
<1>5. (\A i \in I : f[i] \notin M) => None(g, M)
  BY <1>2, <1>3, <1>4 DEF None
<1>6. None(f, M) => None(g, M)
  BY <1>2, <1>3, <1>4 DEF None
<1>7. Once(f, M) => Once(g, M)
  BY <1>2, <1>3, <1>4 DEF Once
<1>8. g = <<>> => I = {}
  <2>1. g = <<>> => DOMAIN g = {}
    OBVIOUS
  <2> QED
    BY <1>3, <1>4, <2>1
<1> QED
  BY <1>5, <1>6, <1>7, <1>8 DEF g

\* When a message is appended.
LEMMA AppendOnce ==
    ASSUME NEW S, NEW f \in Seq(S), NEW x \in S, NEW M
    PROVE  /\ None(Append(f, x), M) <=> None(f, M) /\ x \notin M
           /\ Once(f, M) /\ x \notin M => Once(Append(f, x), M)
           /\ None(f, M) => Once(Append(f, x), M)
<1>1. /\ Append(f, x) \in Seq(S) /\ Len(Append(f, x)) = Len(f) + 1 /\ Len(f) \in Nat
      /\ DOMAIN f = 1..Len(f) /\ DOMAIN Append(f, x) = 1..(Len(f) + 1)
      /\ \A i \in 1..Len(f) : Append(f, x)[i] = f[i]
      /\ Append(f, x)[Len(f) + 1] = x
  BY AppendProperties, LenProperties
<1>2. \A i \in 1..(Len(f) + 1) : i \in 1..Len(f) \/ i = Len(f) + 1
  BY <1>1
<1>3. \A i \in 1..Len(f) : i \in 1..(Len(f) + 1)
  BY <1>1
<1> QED
  BY <1>1, <1>2, <1>3 DEF None, Once

\* When the first is taken off.
LEMMA TailOnce ==
    ASSUME NEW S, NEW f \in Seq(S), f # <<>>, NEW M
    PROVE  /\ None(f, M) <=> Head(f) \notin M /\ None(Tail(f), M)
           /\ Once(f, M) => Once(Tail(f), M)
           /\ Once(f, M) /\ Head(f) \in M => None(Tail(f), M)
<1>1. /\ Len(f) \in Nat /\ Len(f) >= 1 /\ DOMAIN f = 1..Len(f) /\ Head(f) = f[1]
      /\ Tail(f) \in Seq(S) /\ Len(Tail(f)) = Len(f) - 1
      /\ DOMAIN Tail(f) = 1..(Len(f) - 1)
      /\ \A i \in 1..(Len(f) - 1) : Tail(f)[i] = f[i + 1]
  BY HeadTailProperties, LenProperties, EmptySeq
<1> DEFINE g == Tail(f)
           N == Len(f)
<1>2. /\ N \in Nat /\ N >= 1 /\ DOMAIN f = 1..N /\ DOMAIN g = 1..(N - 1) /\ Head(f) = f[1]
      /\ \A i \in 1..(N - 1) : g[i] = f[i + 1] /\ i + 1 \in 1..N /\ i + 1 # 1
  BY <1>1
<1>3. \A i \in 1..N : i = 1 \/ (i - 1 \in 1..(N - 1) /\ g[i - 1] = f[i])
  BY <1>1
<1> HIDE DEF g, N
<1>4. None(f, M) <=> Head(f) \notin M /\ None(g, M)
  <2>1. ASSUME None(f, M)
        PROVE  Head(f) \notin M /\ None(g, M)
    <3>1. 1 \in 1..N
      BY <1>2
    <3> QED
      BY <1>2, <2>1, <3>1 DEF None
  <2>2. ASSUME Head(f) \notin M, None(g, M)
        PROVE  None(f, M)
    BY <1>2, <1>3, <2>2 DEF None
  <2> QED
    BY <2>1, <2>2
<1>5. ASSUME Once(f, M)
      PROVE  Once(g, M)
  <2> SUFFICES ASSUME NEW i \in 1..(N - 1), NEW j \in 1..(N - 1), g[i] \in M, g[j] \in M
               PROVE  i = j
    BY <1>2 DEF Once
  <2>1. i + 1 = j + 1
    BY <1>2, <1>5 DEF Once
  <2> QED
    BY <1>2, <2>1
<1>6. ASSUME Once(f, M), Head(f) \in M
      PROVE  None(g, M)
  <2> SUFFICES ASSUME NEW i \in 1..(N - 1), g[i] \in M
               PROVE  FALSE
    BY <1>2 DEF None
  <2>1. i + 1 = 1
    BY <1>2, <1>6 DEF Once
  <2> QED
    BY <1>2, <2>1
<1> QED
  BY <1>4, <1>5, <1>6 DEF g

\* The runs of t whose message of round r the node s has sent, and those whose
\* message of round r it has heard from q.
SentRuns(s, t, r) ==
    IF t \in DOMAIN s.generators /\ s.generators[t].sent < r THEN s.run[t] - 1 ELSE s.run[t]
HeardRuns(s, t, r, q) ==
    IF t \in DOMAIN s.generators /\ s.generators[t].heard[r][q] = 0
    THEN s.run[t] - 1 ELSE s.run[t]

InRound(r) == {m \in TripleMessage : m.round = r}
Of(t, r) == {m \in TripleMessage : m.id = t /\ m.round = r}
To(n, M) == [to : {n}, msg : M]

\* The messages of M that are not of run k.
Wrong(M, k) == {m \in M : m.run # k}

\* Nothing on its way is of M.
Clear(o, f, g, n, t, r) ==
    None(o, To(n, Of(t, r))) /\ None(f, Of(t, r)) /\ None(g, InRound(r))

\* On its way from a node that has sent round r of c runs of t, through its queue o,
\* the channel f and the bin g of n, which has heard h of them, is at most one
\* message, and it is of the one run that n has not heard yet.
Route(o, f, g, n, t, r, c, h) ==
    /\ h <= c
    /\ None(o, To(n, Wrong(Of(t, r), c))) /\ None(f, Wrong(Of(t, r), c))
    /\ None(g, Wrong(InRound(r), c))
    /\ Once(o, To(n, Of(t, r))) /\ Once(f, Of(t, r)) /\ Once(g, InRound(r))
    /\ None(o, To(n, Of(t, r))) \/ (None(f, Of(t, r)) /\ None(g, InRound(r)))
    /\ None(f, Of(t, r)) \/ None(g, InRound(r))
    /\ c = h + 1 \/ Clear(o, f, g, n, t, r)

\* A protocol has heard messages of its own run only, sends for the second round
\* when it has heard everyone's first, and made what is held.
HeardOwn(s) ==
    \A t \in DOMAIN s.generators : \A r \in 1..2, q \in Nodes \ {s.me} :
        s.generators[t].heard[r][q] \in {0, s.run[t]}
RoundsInOrder(s) ==
    \A t \in DOMAIN s.generators : s.generators[t].sent = 2 => HeardAll(s.generators[t], 1)
MadeOfOwn(s) == \A t \in DOMAIN s.triples : s.triples[t] = {s.run[t]}
OwnRuns(s) == HeardOwn(s) /\ RoundsInOrder(s) /\ MadeOfOwn(s)

RouteOf(q, n, t, r) ==
    Route(outbox[q], channel[n][q], TripleBin(node[n], t)[q], n, t, r,
          SentRuns(node[q], t, r), HeardRuns(node[n], t, r, q))

Routes ==
    /\ \A n \in Nodes : OwnRuns(node[n])
    /\ \A q, n \in Nodes : q # n => \A t \in TripleIds, r \in 1..2 : RouteOf(q, n, t, r)

\* Counts are numbers, and close to the number of runs.
LEMMA CountsTyped ==
    ASSUME NEW s, NEW n \in Nodes, NEW b \in 0..MaxTriples, NEW pb \in 0..MaxPresigs,
           NEW prop \in SUBSET (1..pb), Managed(s, n, b, pb, prop),
           NEW t \in TripleIds, NEW r \in 1..2, NEW q
    PROVE  /\ s.run[t] \in Nat /\ SentRuns(s, t, r) \in Nat /\ HeardRuns(s, t, r, q) \in Nat
           /\ SentRuns(s, t, r) <= s.run[t] /\ s.run[t] <= SentRuns(s, t, r) + 1
           /\ HeardRuns(s, t, r, q) <= s.run[t] /\ s.run[t] <= HeardRuns(s, t, r, q) + 1
<1>1. s.run[t] \in Nat /\ (t \in DOMAIN s.generators => s.run[t] # 0)
  BY Bounds DEF Managed, Shaped, TriplesFit
<1> QED
  BY <1>1 DEF SentRuns, HeardRuns

\* The second message is sent by who has heard everyone's first.
LEMMA SecondAfterFirst ==
    ASSUME NEW s, NEW n \in Nodes, NEW b \in 0..MaxTriples, NEW pb \in 0..MaxPresigs,
           NEW prop \in SUBSET (1..pb), Managed(s, n, b, pb, prop), RoundsInOrder(s),
           NEW t \in TripleIds, NEW q \in Nodes \ {n}
    PROVE  SentRuns(s, t, 2) <= HeardRuns(s, t, 1, q)
<1>1. s.run[t] \in Nat /\ s.me = n
  BY Bounds DEF Managed, Shaped
<1>2. CASE t \notin DOMAIN s.generators
  BY <1>1, <1>2 DEF SentRuns, HeardRuns
<1>3. CASE t \in DOMAIN s.generators
  <2>1. s.generators[t] \in Protocols(n)
    BY <1>1, <1>3 DEF Managed, TriplesFit
  <2>2. s.generators[t].sent < 2 \/ s.generators[t].heard[1][q] # 0
    <3>1. s.generators[t].sent \in 0..2 /\ s.generators[t].me = n
      BY <2>1 DEF Protocols
    <3> QED
      BY <1>3, <3>1 DEF RoundsInOrder, HeardAll
  <2> QED
    BY <1>1, <2>2 DEF SentRuns, HeardRuns
<1> QED
  BY <1>2, <1>3

\* An empty sequence has nothing of M.
LEMMA EmptyNone == \A M : None(<<>>, M) /\ Once(<<>>, M)
  BY DEF None, Once

\* The sets of messages a route is about.
LEMMA WrongWithin ==
    ASSUME NEW f, NEW M, NEW k, NEW n
    PROVE  /\ None(f, M) => None(f, Wrong(M, k))
           /\ None(f, To(n, M)) => None(f, To(n, Wrong(M, k)))
           /\ None(f, M) => Once(f, M)
<1>1. Wrong(M, k) \subseteq M /\ To(n, Wrong(M, k)) \subseteq To(n, M)
  BY DEF Wrong, To
<1> QED
  BY <1>1 DEF None, Once

\* What comes from the channel into the bin of t is of t, and as often.
LEMMA BinOfOnce ==
    ASSUME NEW q \in Nodes, NEW b, NEW pb, NEW prop, NEW a, NEW t, NEW r, NEW c,
           a[q] \in Seq(Sent(q, b, pb, prop))
    PROVE  LET B == BinOf(a, t, q)
           IN /\ None(a[q], Of(t, r)) => None(B, InRound(r))
              /\ Once(a[q], Of(t, r)) => Once(B, InRound(r))
              /\ None(a[q], Wrong(Of(t, r), c)) => None(B, Wrong(InRound(r), c))
<1> DEFINE I == {i \in DOMAIN a[q] : a[q][i].kind = "triple" /\ a[q][i].id = t}
           f == a[q]
           S == Sent(q, b, pb, prop)
           B == Select(f, I)
           N == Cardinality(I)
<1>1. I \in SUBSET DOMAIN f /\ f \in Seq(S) /\ DOMAIN f = 1..Len(f) /\ Len(f) \in Nat
  BY LenProperties
<1>2. \A i \in I : f[i] \in TripleMessage /\ f[i].id = t
  BY <1>1, KindIsShape, ElementOfSeq
<1>3. BinOf(a, t, q) = B
  BY DEF BinOf
<1> HIDE DEF I, f, S
<1>4. /\ B \in Seq(S) /\ Len(B) = N /\ N \in Nat
      /\ \E at \in Bijection(1..N, I) : \A k \in 1..N : B[k] = f[at[k]]
  BY <1>1, SelectAt
<1>5. DOMAIN B = 1..N
  BY <1>4, LenProperties
<1>6. \A k \in DOMAIN B : B[k] \in TripleMessage /\ B[k].id = t
  BY <1>2, <1>4, <1>5 DEF Bijection, Injection
<1>7. /\ None(f, Of(t, r)) => None(B, Of(t, r))
      /\ Once(f, Of(t, r)) => Once(B, Of(t, r))
      /\ None(f, Wrong(Of(t, r), c)) => None(B, Wrong(Of(t, r), c))
  <2> HIDE DEF B, N
  <2> QED
    BY <1>1, SelectOnce DEF B
<1> HIDE DEF B, N
<1>8. \A k \in DOMAIN B : /\ B[k] \in InRound(r) <=> B[k] \in Of(t, r)
                          /\ B[k] \in Wrong(InRound(r), c) <=> B[k] \in Wrong(Of(t, r), c)
  BY <1>6 DEF InRound, Of, Wrong
<1>9. /\ None(f, Of(t, r)) => None(B, InRound(r))
      /\ Once(f, Of(t, r)) => Once(B, InRound(r))
      /\ None(f, Wrong(Of(t, r), c)) => None(B, Wrong(InRound(r), c))
  BY <1>7, <1>8 DEF None, Once
<1> QED
  BY <1>3, <1>9 DEF f

\* Draining the channel into the bins leaves the route as it is.
LEMMA PushRoute ==
    ASSUME NEW s, NEW d, NEW n \in Nodes, NEW b \in 0..MaxTriples, NEW pb \in 0..MaxPresigs,
           NEW prop \in SUBSET (1..pb), NEW a, Pushed(d, s, a),
           Managed(s, n, b, pb, prop), ArrivedFit(a, b, pb, prop),
           NEW q \in Nodes, NEW t, NEW r, NEW o, NEW c, NEW h,
           Route(o, a[q], TripleBin(s, t)[q], n, t, r, c, h)
    PROVE  Route(o, <<>>, TripleBin(d, t)[q], n, t, r, c, h)
<1> DEFINE f == a[q]
           g == TripleBin(s, t)[q]
           B == BinOf(a, t, q)
           e == TripleBin(d, t)[q]
<1>1. f \in Seq(Sent(q, b, pb, prop))
  BY DEF ArrivedFit
<1>2. /\ None(f, Of(t, r)) => None(B, InRound(r))
      /\ Once(f, Of(t, r)) => Once(B, InRound(r))
      /\ None(f, Wrong(Of(t, r), c)) => None(B, Wrong(InRound(r), c))
  BY <1>1, BinOfOnce
<1>3. B \in Seq(TripleMessage)
  BY <1>1, BinOfTyped
<1>4. g \in Seq(TripleMessage)
  BY DEF TripleBin, EmptyBin, Managed, TriplesFit
<1>5. e = g \o B \/ e = B \/ e = <<>>
  <2>1. CASE t \in DOMAIN d.bins
    <3>1. d.bins[t] = [p \in Nodes |-> IF t \in DOMAIN s.bins
                                       THEN s.bins[t][p] \o BinOf(a, t, p) ELSE BinOf(a, t, p)]
      BY <2>1 DEF Pushed
    <3>2. d.bins[t][q] = IF t \in DOMAIN s.bins THEN s.bins[t][q] \o B ELSE B
      BY <3>1
    <3> QED
      BY <2>1, <3>2 DEF TripleBin
  <2>2. CASE t \notin DOMAIN d.bins
    BY <2>2 DEF TripleBin, EmptyBin
  <2> QED
    BY <2>1, <2>2
<1>6. Route(o, f, g, n, t, r, c, h)
  OBVIOUS
<1> HIDE DEF f, g, B, e
<1>7. /\ None(g, InRound(r)) /\ None(B, InRound(r)) => None(e, InRound(r))
      /\ None(g, Wrong(InRound(r), c)) /\ None(B, Wrong(InRound(r), c))
           => None(e, Wrong(InRound(r), c))
      /\ Once(g, InRound(r)) /\ None(B, InRound(r)) => Once(e, InRound(r))
      /\ None(g, InRound(r)) /\ Once(B, InRound(r)) => Once(e, InRound(r))
  <2>1. CASE e = g \o B
    BY <1>3, <1>4, <2>1, ConcatOnce
  <2>2. CASE e = B
    BY <2>2, WrongWithin
  <2>3. CASE e = <<>>
    BY <2>3, EmptyNone
  <2> QED
    BY <1>5, <2>1, <2>2, <2>3
<1>8. Route(o, <<>>, e, n, t, r, c, h)
  BY <1>2, <1>6, <1>7, EmptyNone DEF Route, Clear
<1> QED
  BY <1>8 DEF e

\* What the routes say of node n does not change from s to d.
SameRoutes(d, s) ==
    /\ \A t \in TripleIds, r \in 1..2 : SentRuns(d, t, r) = SentRuns(s, t, r)
    /\ \A t \in TripleIds, r \in 1..2, q \in Nodes \ {s.me} :
          HeardRuns(d, t, r, q) = HeardRuns(s, t, r, q)
    /\ \A t \in TripleIds : TripleBin(d, t) = TripleBin(s, t)

\* A step that leaves generators and bins alone, and may take triples.
SameTriples(d, s) ==
    /\ d.me = s.me /\ d.run = s.run /\ d.generators = s.generators /\ d.bins = s.bins
    /\ DOMAIN d.triples \subseteq DOMAIN s.triples
    /\ \A t \in DOMAIN d.triples : d.triples[t] = s.triples[t]

\* It keeps all of that.
LEMMA SameTriplesKeep ==
    ASSUME NEW d, NEW s, SameTriples(d, s), OwnRuns(s)
    PROVE  SameRoutes(d, s) /\ OwnRuns(d)
<1>1. SameRoutes(d, s)
  BY DEF SameTriples, SameRoutes, SentRuns, HeardRuns, TripleBin
<1>2. HeardOwn(d) /\ RoundsInOrder(d)
  BY DEF SameTriples, OwnRuns, HeardOwn, RoundsInOrder
<1>3. MadeOfOwn(d)
  BY DEF SameTriples, OwnRuns, MadeOfOwn
<1> QED
  BY <1>1, <1>2, <1>3 DEF OwnRuns

\* A protocol just started has sent and heard nothing of its run.
LEMMA GenerateRoutes ==
    ASSUME NEW s, NEW d, NEW n \in Nodes, NEW b \in 0..MaxTriples, NEW pb \in 0..MaxPresigs,
           NEW prop \in SUBSET (1..pb), b < MaxTriples, NEW c, c = b + 1,
           Managed(s, n, b, pb, prop), Generated(d, s, c), OwnRuns(s)
    PROVE  SameRoutes(d, s) /\ OwnRuns(d)
<1>1. /\ c \in TripleIds /\ c \notin DOMAIN s.generators /\ c \notin DOMAIN s.triples
      /\ s.run[c] = 0 /\ s.run \in [TripleIds -> 0..MaxRuns] /\ s.me = n
  BY Bounds DEF Managed, Shaped, TriplesFit, TripleIds
<1>2. /\ d.run = [s.run EXCEPT ![c] = s.run[c] + 1] /\ d.bins = s.bins /\ d.triples = s.triples
      /\ d.me = s.me /\ d.generators = With(s.generators, {c}, NewTripleProtocol(s.me))
  BY DEF Generated, SameBut, Fields
<1> DEFINE p == NewTripleProtocol(n)
<1>3. /\ DOMAIN d.generators = DOMAIN s.generators \cup {c} /\ d.generators[c] = p
      /\ \A t \in DOMAIN s.generators : d.generators[t] = s.generators[t]
      /\ d.run[c] = 1 /\ \A t \in TripleIds \ {c} : d.run[t] = s.run[t]
  BY <1>1, <1>2 DEF With
<1>4. p.sent = 0 /\ \A r \in 1..2, q \in Nodes : p.heard[r][q] = 0
  BY DEF NewTripleProtocol
<1> HIDE DEF p
<1>5. SameRoutes(d, s)
  <2>1. ASSUME NEW t \in TripleIds, NEW r \in 1..2
        PROVE  SentRuns(d, t, r) = SentRuns(s, t, r)
    <3>1. CASE t = c
      BY <1>1, <1>3, <1>4, <3>1 DEF SentRuns
    <3>2. CASE t # c
      BY <1>3, <3>2 DEF SentRuns
    <3> QED
      BY <3>1, <3>2
  <2>2. ASSUME NEW t \in TripleIds, NEW r \in 1..2, NEW q \in Nodes \ {s.me}
        PROVE  HeardRuns(d, t, r, q) = HeardRuns(s, t, r, q)
    <3>1. CASE t = c
      BY <1>1, <1>3, <1>4, <3>1 DEF HeardRuns
    <3>2. CASE t # c
      BY <1>3, <3>2 DEF HeardRuns
    <3> QED
      BY <3>1, <3>2
  <2> QED
    BY <1>2, <2>1, <2>2 DEF SameRoutes, TripleBin
<1>6. \A t \in DOMAIN s.generators \cup DOMAIN s.triples : t \in TripleIds \ {c}
  BY <1>1, Bounds DEF Managed, TriplesFit, TripleIds
<1>7. HeardOwn(d)
  <2> SUFFICES ASSUME NEW t \in DOMAIN d.generators, NEW r \in 1..2, NEW q \in Nodes \ {n}
               PROVE  d.generators[t].heard[r][q] \in {0, d.run[t]}
    BY <1>1, <1>2 DEF HeardOwn
  <2>1. CASE t = c
    BY <1>3, <1>4, <2>1
  <2>2. CASE t # c
    BY <1>1, <1>3, <1>6, <2>2 DEF OwnRuns, HeardOwn
  <2> QED
    BY <2>1, <2>2
<1>8. RoundsInOrder(d)
  BY <1>3, <1>4 DEF OwnRuns, RoundsInOrder
<1>9. MadeOfOwn(d)
  BY <1>2, <1>3, <1>6 DEF OwnRuns, MadeOfOwn
<1> QED
  BY <1>5, <1>7, <1>8, <1>9 DEF OwnRuns

\* The protocol of t sends its message of round r when it is poked.
Sending(s, t, r) ==
    /\ t \in DOMAIN s.generators
    /\ s.generators[t].sent < r /\ r <= SentBy(s.generators[t])

\* What a poke sends counts as sent then; what returns was made of its own run.
LEMMA PokeRoutes ==
    ASSUME NEW s, NEW d, NEW n \in Nodes, NEW b \in 0..MaxTriples, NEW pb \in 0..MaxPresigs,
           NEW prop \in SUBSET (1..pb), NEW order, NEW own,
           Managed(s, n, b, pb, prop), Poked(d, s, order, own), OwnRuns(s)
    PROVE  /\ \A t \in TripleIds, r \in 1..2 :
                 SentRuns(d, t, r) = IF Sending(s, t, r) THEN s.run[t] ELSE SentRuns(s, t, r)
           /\ \A t \in TripleIds, r \in 1..2, q \in Nodes \ {n} :
                 HeardRuns(d, t, r, q) = HeardRuns(s, t, r, q)
           /\ \A t \in TripleIds : TripleBin(d, t) = TripleBin(s, t)
           /\ OwnRuns(d)
<1> DEFINE done == Returned(s)
<1>1. /\ d.run = s.run /\ d.bins = s.bins /\ d.me = s.me /\ s.me = n
  BY DEF Poked, SameBut, Fields, Managed, Shaped
<1>2. /\ DOMAIN d.generators = DOMAIN s.generators \ done
      /\ \A t \in DOMAIN d.generators :
            d.generators[t] = [s.generators[t] EXCEPT !.sent = SentBy(s.generators[t])]
      /\ DOMAIN d.triples = DOMAIN s.triples \cup done
      /\ \A t \in done : d.triples[t] = RunsIn(s, t)
      /\ \A t \in DOMAIN s.triples \ done : d.triples[t] = s.triples[t]
  BY DEF Poked
<1>3. \A t \in DOMAIN s.generators : s.generators[t] \in Protocols(n) /\ t \in TripleIds
  BY <1>1, Bounds DEF Managed, TriplesFit, TripleIds
<1>4. \A t \in done : t \in DOMAIN s.generators /\ HeardAll(s.generators[t], 1)
                      /\ HeardAll(s.generators[t], 2)
  BY DEF Returned
<1> HIDE DEF done
<1>5. ASSUME NEW t \in DOMAIN s.generators
      PROVE  /\ s.generators[t].sent \in 0..2 /\ s.generators[t].me = n
             /\ s.generators[t].sent <= SentBy(s.generators[t])
             /\ SentBy(s.generators[t]) \in 1..2
             /\ SentBy(s.generators[t]) = 2 <=> HeardAll(s.generators[t], 1)
             /\ t \in DOMAIN d.generators =>
                  /\ d.generators[t].sent = SentBy(s.generators[t])
                  /\ d.generators[t].heard = s.generators[t].heard
                  /\ d.generators[t].me = n
  <2>1. s.generators[t].sent \in 0..2 /\ s.generators[t].me = n
    BY <1>3 DEF Protocols
  <2>2. s.generators[t].sent = 2 => HeardAll(s.generators[t], 1)
    BY DEF OwnRuns, RoundsInOrder
  <2>3. t \in DOMAIN d.generators =>
                  /\ d.generators[t].sent = SentBy(s.generators[t])
                  /\ d.generators[t].heard = s.generators[t].heard
                  /\ d.generators[t].me = n
    BY <1>2, <1>3 DEF Protocols
  <2> QED
    BY <2>1, <2>2, <2>3 DEF SentBy
<1>6. ASSUME NEW t \in TripleIds, NEW r \in 1..2
      PROVE  SentRuns(d, t, r) = IF Sending(s, t, r) THEN s.run[t] ELSE SentRuns(s, t, r)
  <2>1. CASE t \notin DOMAIN s.generators
    BY <1>1, <1>2, <2>1 DEF SentRuns, Sending
  <2>2. CASE t \in done
    <3>1. SentBy(s.generators[t]) = 2 /\ t \notin DOMAIN d.generators /\ t \in DOMAIN s.generators
      BY <1>2, <1>4, <1>5, <2>2
    <3> QED
      BY <1>1, <3>1 DEF SentRuns, Sending
  <2>3. CASE t \in DOMAIN s.generators \ done
    <3>1. t \in DOMAIN d.generators /\ t \in DOMAIN s.generators
      BY <1>2, <2>3
    <3> QED
      BY <1>1, <1>5, <3>1 DEF SentRuns, Sending
  <2> QED
    BY <2>1, <2>2, <2>3
<1>7. ASSUME NEW t \in TripleIds, NEW r \in 1..2, NEW q \in Nodes \ {n}
      PROVE  HeardRuns(d, t, r, q) = HeardRuns(s, t, r, q)
  <2>1. CASE t \notin DOMAIN s.generators
    BY <1>1, <1>2, <2>1 DEF HeardRuns
  <2>2. CASE t \in done
    <3>1. t \notin DOMAIN d.generators /\ s.generators[t].heard[r][q] # 0
      BY <1>2, <1>4, <1>5, <2>2 DEF HeardAll
    <3> QED
      BY <1>1, <3>1 DEF HeardRuns
  <2>3. CASE t \in DOMAIN s.generators \ done
    BY <1>1, <1>2, <1>5, <2>3 DEF HeardRuns
  <2> QED
    BY <2>1, <2>2, <2>3
<1>8. \A t \in TripleIds : TripleBin(d, t) = TripleBin(s, t)
  BY <1>1 DEF TripleBin
<1>9. HeardOwn(d)
  BY <1>1, <1>2, <1>5 DEF OwnRuns, HeardOwn
<1>10. RoundsInOrder(d)
  BY <1>2, <1>5 DEF RoundsInOrder, HeardAll
<1>11. MadeOfOwn(d)
  <2>1. ASSUME NEW t \in done
        PROVE  RunsIn(s, t) = {s.run[t]}
    <3>1. ASSUME NEW r \in 1..2, NEW q \in Nodes \ {s.me}
          PROVE  s.generators[t].heard[r][q] = s.run[t]
      <4>1. s.generators[t].heard[r][q] # 0
        BY <1>1, <1>4, <1>5 DEF HeardAll
      <4> QED
        BY <1>4, <4>1 DEF OwnRuns, HeardOwn
    <3> QED
      BY <3>1 DEF RunsIn
  <2> QED
    BY <1>1, <1>2, <2>1 DEF OwnRuns, MadeOfOwn
<1> QED
  BY <1>6, <1>7, <1>8, <1>9, <1>10, <1>11 DEF OwnRuns

\* What a protocol has heard after its bin was fed to it.
LEMMA MessageAt ==
    ASSUME NEW n \in Nodes, NEW p \in Protocols(n), NEW bin \in [Nodes -> Seq(TripleMessage)]
    PROVE  /\ Message(p, bin).sent = p.sent /\ Message(p, bin).me = n
           /\ \A r \in 1..2, q \in Nodes \ {n} :
                 Message(p, bin).heard[r][q] =
                    IF p.heard[r][q] = 0 /\ FirstOf(bin, r, q) # <<>>
                    THEN FirstOf(bin, r, q)[1].run ELSE p.heard[r][q]
<1> DEFINE heard == [r \in 1..2 |-> [q \in Nodes |->
             IF q # p.me /\ p.heard[r][q] = 0 /\ FirstOf(bin, r, q) # <<>>
             THEN FirstOf(bin, r, q)[1].run ELSE p.heard[r][q]]]
<1>1. Message(p, bin) = [p EXCEPT !.heard = heard]
  BY DEF Message, FirstOf
<1>2. p.me = n
  BY DEF Protocols
<1>3. \A r \in 1..2, q \in Nodes \ {n} :
        heard[r][q] = IF p.heard[r][q] = 0 /\ FirstOf(bin, r, q) # <<>>
                      THEN FirstOf(bin, r, q)[1].run ELSE p.heard[r][q]
  BY <1>2
<1> HIDE DEF heard
<1>4. Message(p, bin).sent = p.sent /\ Message(p, bin).me = n /\ Message(p, bin).heard = heard
  BY <1>1, <1>2 DEF Protocols
<1> QED
  BY <1>3, <1>4

\* The first message of a round is one of those in the bin.
LEMMA FirstOfAt ==
    ASSUME NEW bin \in [Nodes -> Seq(TripleMessage)], NEW q \in Nodes, NEW r
    PROVE  \/ FirstOf(bin, r, q) = <<>>
           \/ \E i \in DOMAIN bin[q] : bin[q][i].round = r /\ FirstOf(bin, r, q)[1] = bin[q][i]
<1> DEFINE f == bin[q]
           I == {i \in DOMAIN f : f[i].round = r}
           N == Cardinality(I)
           g == Select(f, I)
<1>1. f \in Seq(TripleMessage) /\ I \in SUBSET DOMAIN f /\ FirstOf(bin, r, q) = g
  BY DEF FirstOf
<1>2. \A i \in I : i \in DOMAIN f /\ f[i].round = r
  OBVIOUS
<1> HIDE DEF f, I
<1>3. /\ g \in Seq(TripleMessage) /\ N \in Nat /\ Len(g) = N
      /\ \E at \in Bijection(1..N, I) : \A k \in 1..N : g[k] = f[at[k]]
  BY <1>1, SelectAt
<1>4. CASE N = 0
  BY <1>1, <1>3, <1>4, EmptySeq
<1>5. CASE N # 0
  <2>1. 1 \in 1..N
    BY <1>3, <1>5
  <2>2. PICK at \in Bijection(1..N, I) : \A k \in 1..N : g[k] = f[at[k]]
    BY <1>3
  <2>3. at[1] \in I /\ g[1] = f[at[1]]
    BY <2>1, <2>2 DEF Bijection, Injection
  <2> QED
    BY <1>1, <1>2, <2>3 DEF f
<1> QED
  BY <1>4, <1>5

\* A message in the bin is of the run that is awaited, and the only one.
LEMMA FedRoute ==
    ASSUME NEW o, NEW g \in Seq(TripleMessage), NEW n, NEW t, NEW r, NEW c, NEW h,
           Route(o, <<>>, g, n, t, r, c, h)
    PROVE  /\ Route(o, <<>>, <<>>, n, t, r, c, h)
           /\ \A i \in DOMAIN g : g[i].round = r => g[i].run = c /\ c = h + 1
           /\ (\E i \in DOMAIN g : g[i].round = r) /\ c <= c => Route(o, <<>>, <<>>, n, t, r, c, c)
<1>1. \A i \in DOMAIN g : g[i] \in TripleMessage
  BY ElementOfSeq, LenProperties
<1>2. ASSUME NEW i \in DOMAIN g, g[i].round = r
      PROVE  /\ g[i].run = c /\ c = h + 1
             /\ None(o, To(n, Of(t, r)))
  <2>1. g[i] \in InRound(r) /\ (g[i].run = c \/ g[i] \in Wrong(InRound(r), c))
    BY <1>1, <1>2 DEF InRound, Wrong
  <2>2. ~ None(g, InRound(r)) /\ g[i].run = c
    BY <2>1 DEF None, Route
  <2> QED
    BY <2>2 DEF Route, Clear
<1>3. Route(o, <<>>, <<>>, n, t, r, c, h)
  BY EmptyNone DEF Route, Clear
<1>4. ASSUME None(o, To(n, Of(t, r))), c <= c
      PROVE  Route(o, <<>>, <<>>, n, t, r, c, c)
  BY <1>3, <1>4, EmptyNone DEF Route, Clear
<1> QED
  BY <1>2, <1>3, <1>4

\* The routes to node n, whose channel is drained and whose managers are s, from
\* nodes with queues O that have sent C.
Incoming(s, n, O, C) ==
    \A t \in TripleIds, r \in 1..2, q \in Nodes \ {n} :
        /\ C[q][t][r] \in Nat
        /\ Route(O[q], <<>>, TripleBin(s, t)[q], n, t, r, C[q][t][r], HeardRuns(s, t, r, q))

\* They depend on what the node has heard and has in its bins only.
LEMMA SameIncoming ==
    ASSUME NEW d, NEW s, NEW n, s.me = n, SameRoutes(d, s), NEW O, NEW C, Incoming(s, n, O, C)
    PROVE  Incoming(d, n, O, C)
  BY DEF SameRoutes, Incoming

\* Feeding the bins of the triples to the protocols.
LEMMA HandleTriplesRoutes ==
    ASSUME NEW s, NEW d, NEW n \in Nodes, NEW b \in 0..MaxTriples, NEW pb \in 0..MaxPresigs,
           NEW prop \in SUBSET (1..pb), HandledTriples(d, s), Managed(s, n, b, pb, prop),
           OwnRuns(s), NEW O, NEW C, Incoming(s, n, O, C)
    PROVE  /\ OwnRuns(d) /\ Incoming(d, n, O, C)
           /\ \A t \in TripleIds, r \in 1..2 : SentRuns(d, t, r) = SentRuns(s, t, r)
<1>1. /\ b \in Nat /\ MaxTriples \in Nat /\ MaxRuns \in Nat \ {0} /\ 1..b \subseteq TripleIds
      /\ d.me = n /\ s.me = n /\ s.run \in [TripleIds -> 0..MaxRuns] /\ d.triples = s.triples
      /\ DOMAIN s.triples \subseteq 1..b /\ DOMAIN s.bins \subseteq 1..b
      /\ DOMAIN s.generators \subseteq 1..b
      /\ \A t \in TripleIds : s.run[t] \in Nat
  <2>1. b \in Nat /\ MaxTriples \in Nat /\ MaxRuns \in Nat \ {0} /\ 1..b \subseteq TripleIds
    BY Bounds DEF TripleIds
  <2>2. d.me = s.me /\ d.triples = s.triples
    BY DEF HandledTriples, SameBut, Fields
  <2>3. s.me = n /\ s.run \in [TripleIds -> 0..MaxRuns]
    BY DEF Managed, Shaped
  <2>4. /\ DOMAIN s.triples \subseteq 1..b /\ DOMAIN s.bins \subseteq 1..b
        /\ DOMAIN s.generators \subseteq 1..b
    BY DEF Managed, TriplesFit
  <2> QED
    BY <2>1, <2>2, <2>3, <2>4
<1> DEFINE J == Joined(s)
           live == DOMAIN s.generators \cup J
<1>2. \A t \in J : t \in TripleIds /\ t \notin DOMAIN s.triples /\ t \notin DOMAIN s.generators
  BY <1>1 DEF Joined
<1>3. /\ DOMAIN d.bins = DOMAIN s.bins /\ DOMAIN d.generators = live
      /\ \A t \in TripleIds : d.run[t] = IF t \in J THEN s.run[t] + 1 ELSE s.run[t]
      /\ \A t \in DOMAIN s.bins : d.bins[t] = IF t \in live THEN EmptyBin ELSE s.bins[t]
      /\ \A t \in live : d.generators[t] = Message(TripleGen(s, t), TripleBin(s, t))
  BY DEF HandledTriples
<1> HIDE DEF J
<1>4. \A t \in live : t \in TripleIds
  BY <1>1, <1>2
<1> DEFINE p(t) == TripleGen(s, t)
           F(t, r, q) == FirstOf(TripleBin(s, t), r, q)
<1>5. \A t : TripleBin(s, t) \in [Nodes -> Seq(TripleMessage)]
  BY DEF TripleBin, EmptyBin, Managed, TriplesFit
<1>6. ASSUME NEW t \in live
      PROVE  /\ p(t) \in Protocols(n)
             /\ d.generators[t].sent = p(t).sent /\ d.generators[t].me = n
             /\ \A r \in 1..2, q \in Nodes \ {n} :
                  d.generators[t].heard[r][q] =
                    IF p(t).heard[r][q] = 0 /\ F(t, r, q) # <<>>
                    THEN F(t, r, q)[1].run ELSE p(t).heard[r][q]
  <2>1. NewTripleProtocol(n) \in Protocols(n)
    BY <1>1 DEF NewTripleProtocol, Protocols
  <2>2. p(t) \in Protocols(n)
    BY <1>1, <2>1 DEF TripleGen, Managed, TriplesFit
  <2> HIDE DEF p
  <2> QED
    BY <1>3, <1>5, <2>2, MessageAt DEF p
<1>7. ASSUME NEW t \in J
      PROVE  /\ p(t).sent = 0
             /\ \A r \in 1..2, q \in Nodes : p(t).heard[r][q] = 0
  BY <1>2 DEF TripleGen, NewTripleProtocol
<1>8. \A t \in DOMAIN s.generators : p(t) = s.generators[t] /\ t \notin J
  BY <1>2 DEF TripleGen
<1>9. \A t, r, q : \/ F(t, r, q) = <<>>
                   \/ q \notin Nodes
                   \/ \E i \in DOMAIN TripleBin(s, t)[q] :
                        /\ TripleBin(s, t)[q][i].round = r
                        /\ F(t, r, q)[1] = TripleBin(s, t)[q][i]
  BY <1>5, FirstOfAt
<1> HIDE DEF p, F
<1>10. \A t \in TripleIds, r \in 1..2 : SentRuns(d, t, r) = SentRuns(s, t, r)
  <2> SUFFICES ASSUME NEW t \in TripleIds, NEW r \in 1..2
               PROVE  SentRuns(d, t, r) = SentRuns(s, t, r)
    OBVIOUS
  <2>1. CASE t \in J
    <3>1. t \in DOMAIN d.generators /\ d.generators[t].sent = 0
      BY <1>3, <1>6, <1>7, <2>1
    <3>2. d.run[t] = s.run[t] + 1 /\ s.run[t] \in Nat /\ t \notin DOMAIN s.generators
      BY <1>1, <1>2, <1>3, <2>1
    <3> QED
      BY <3>1, <3>2 DEF SentRuns
  <2>2. CASE t \notin J
    BY <1>1, <1>3, <1>6, <1>8, <2>2 DEF SentRuns
  <2> QED
    BY <2>1, <2>2
<1>11. RoundsInOrder(d)
  <2> SUFFICES ASSUME NEW t \in live, d.generators[t].sent = 2, NEW q \in Nodes \ {n}
               PROVE  d.generators[t].heard[1][q] # 0
    BY <1>3, <1>6 DEF RoundsInOrder, HeardAll
  <2>1. t \in DOMAIN s.generators
    BY <1>6, <1>7
  <2>2. s.generators[t].heard[1][q] # 0
    <3>1. s.generators[t].me = n /\ s.generators[t].sent = 2
      BY <1>6, <1>8, <2>1 DEF Protocols
    <3> QED
      BY <2>1, <3>1 DEF OwnRuns, RoundsInOrder, HeardAll
  <2> QED
    BY <1>6, <1>8, <2>1, <2>2
<1>12. MadeOfOwn(d)
  BY <1>1, <1>2, <1>3 DEF OwnRuns, MadeOfOwn
<1>13. ASSUME NEW t \in TripleIds, NEW r \in 1..2, NEW q \in Nodes \ {n}
       PROVE  /\ Route(O[q], <<>>, TripleBin(d, t)[q], n, t, r, C[q][t][r], HeardRuns(d, t, r, q))
              /\ t \in live => d.generators[t].heard[r][q] \in {0, d.run[t]}
  <2> DEFINE g == TripleBin(s, t)[q]
             c == C[q][t][r]
             h == HeardRuns(s, t, r, q)
  <2>1. g \in Seq(TripleMessage) /\ Route(O[q], <<>>, g, n, t, r, c, h) /\ c \in Nat
    BY <1>5 DEF Incoming
  <2>2. CASE t \notin live
    <3>1. TripleBin(d, t) = TripleBin(s, t) /\ HeardRuns(d, t, r, q) = h
      BY <1>3, <2>2 DEF TripleBin, HeardRuns
    <3> QED
      BY <2>1, <2>2, <3>1
  <2>3. CASE t \in live
    <3>1. TripleBin(d, t)[q] = <<>>
      BY <1>3, <2>3 DEF TripleBin, EmptyBin
    <3>2. CASE p(t).heard[r][q] # 0
      <4>1. /\ t \in DOMAIN s.generators /\ s.generators[t].heard[r][q] # 0 /\ d.run[t] = s.run[t]
            /\ d.generators[t].heard[r][q] = s.generators[t].heard[r][q]
        BY <1>3, <1>6, <1>7, <1>8, <2>3, <3>2
      <4>2. HeardRuns(d, t, r, q) = h
        BY <1>3, <4>1 DEF HeardRuns
      <4>3. d.generators[t].heard[r][q] \in {0, d.run[t]}
        BY <1>1, <4>1 DEF OwnRuns, HeardOwn
      <4> HIDE DEF g, c, h
      <4>4. Route(O[q], <<>>, <<>>, n, t, r, c, h)
        BY <2>1, FedRoute
      <4> QED
        BY <3>1, <4>2, <4>3, <4>4 DEF c
    <3>3. CASE p(t).heard[r][q] = 0
      <4>1. h = d.run[t] - 1 /\ d.run[t] \in Nat
        <5>1. CASE t \in J
          BY <1>1, <1>2, <1>3, <5>1 DEF HeardRuns
        <5>2. CASE t \notin J
          BY <1>1, <1>3, <1>8, <2>3, <3>3, <5>2 DEF HeardRuns
        <5> QED
          BY <5>1, <5>2
      <4>2. CASE F(t, r, q) = <<>>
        <5>1. d.generators[t].heard[r][q] = 0
          BY <1>6, <2>3, <3>3, <4>2
        <5>2. HeardRuns(d, t, r, q) = h
          BY <1>3, <2>3, <4>1, <5>1 DEF HeardRuns
        <5> HIDE DEF g, c, h
        <5>3. Route(O[q], <<>>, <<>>, n, t, r, c, h)
          BY <2>1, FedRoute
        <5> QED
          BY <3>1, <5>1, <5>2, <5>3 DEF c
      <4>3. CASE F(t, r, q) # <<>>
        <5>1. PICK i \in DOMAIN g : g[i].round = r /\ F(t, r, q)[1] = g[i]
          BY <1>9, <4>3
        <5>2. d.generators[t].heard[r][q] = g[i].run
          BY <1>6, <2>3, <3>3, <4>3, <5>1
        <5>3. /\ g[i].run = c /\ c = h + 1 /\ Route(O[q], <<>>, <<>>, n, t, r, c, c)
          <6> HIDE DEF g, c, h
          <6>1. c <= c
            BY <2>1
          <6> QED
            BY <2>1, <5>1, <6>1, FedRoute
        <5>4. c = d.run[t] /\ c # 0
          <6>1. h \in Nat
            BY CountsTyped
          <6> HIDE DEF c, h
          <6> QED
            BY <2>1, <4>1, <5>3, <6>1
        <5>5. HeardRuns(d, t, r, q) = c
          BY <1>3, <2>3, <5>2, <5>3, <5>4 DEF HeardRuns
        <5> HIDE DEF g, c, h
        <5> QED
          BY <3>1, <5>2, <5>3, <5>4, <5>5 DEF c
      <4> QED
        BY <4>2, <4>3
    <3> QED
      BY <3>2, <3>3
  <2> QED
    BY <2>2, <2>3
<1>14. HeardOwn(d)
  BY <1>1, <1>3, <1>4, <1>13 DEF HeardOwn
<1>15. Incoming(d, n, O, C)
  BY <1>13 DEF Incoming
<1> QED
  BY <1>10, <1>11, <1>12, <1>14, <1>15 DEF OwnRuns

\* Each message goes once to each receiver.
LEMMA SendManyOnce ==
    ASSUME NEW S, NEW msgs \in Seq(S), NEW Q, IsFiniteSet(Q), NEW M, NEW m
    PROVE  /\ None(msgs, M) => None(SendMany(msgs, Q), To(m, M))
           /\ Once(msgs, M) => Once(SendMany(msgs, Q), To(m, M))
<1> DEFINE f == SendMany(msgs, Q)
           E == [to : Q, msg : S]
<1>1. /\ SendMany(msgs, Q) \in Seq([to : Q, msg : S])
      /\ \E row \in [1..Len(SendMany(msgs, Q)) -> 1..Len(msgs)] :
           \A i, j \in 1..Len(SendMany(msgs, Q)) :
               /\ SendMany(msgs, Q)[i].msg = msgs[row[i]]
               /\ SendMany(msgs, Q)[i].to = SendMany(msgs, Q)[j].to /\ row[i] = row[j]
                    => i = j
  BY SendManyAt
<1>2. f \in Seq(E)
  BY <1>1
<1>3. PICK row \in [1..Len(f) -> 1..Len(msgs)] :
        \A i, j \in 1..Len(f) : /\ f[i].msg = msgs[row[i]]
                                /\ f[i].to = f[j].to /\ row[i] = row[j] => i = j
  BY <1>1, Zenon
<1> HIDE DEF f, E
<1>4. DOMAIN f = 1..Len(f) /\ DOMAIN msgs = 1..Len(msgs)
  BY <1>2, LenProperties
<1>5. \A x : x \in To(m, M) => x.to = m /\ x.msg \in M
  BY DEF To
<1>6. None(msgs, M) => None(f, To(m, M))
  BY <1>3, <1>4, <1>5 DEF None
<1>7. ASSUME Once(msgs, M), NEW i \in 1..Len(f), NEW j \in 1..Len(f),
             f[i] \in To(m, M), f[j] \in To(m, M)
      PROVE  i = j
  <2>1. f[i].to = f[j].to /\ msgs[row[i]] \in M /\ msgs[row[j]] \in M
    BY <1>3, <1>5, <1>7
  <2>2. row[i] \in DOMAIN msgs /\ row[j] \in DOMAIN msgs
    BY <1>3, <1>4
  <2>3. row[i] = row[j]
    BY <1>7, <2>1, <2>2 DEF Once
  <2> QED
    BY <1>3, <2>1, <2>3
<1>8. Once(msgs, M) => Once(f, To(m, M))
  BY <1>4, <1>7 DEF Once
<1> QED
  BY <1>6, <1>8 DEF f

\* Presignatures and signatures send no messages of triples.
LEMMA OthersNone ==
    ASSUME NEW f, NEW m, NEW M \in SUBSET TripleMessage,
           \/ f \in Seq([to : Nodes, msg : PresigMessage])
           \/ f \in Seq([to : Nodes, msg : SignMessage])
    PROVE  None(f, To(m, M))
<1>1. \A x \in [to : Nodes, msg : PresigMessage] \cup [to : Nodes, msg : SignMessage] :
        x.msg.kind # "triple"
  BY DEF PresigMessage, SignMessage
<1>2. \A x \in To(m, M) : x.msg.kind = "triple"
  BY DEF To, TripleMessage
<1>3. \A i \in DOMAIN f :
        f[i] \in [to : Nodes, msg : PresigMessage] \cup [to : Nodes, msg : SignMessage]
  BY ElementOfSeq, LenProperties
<1> QED
  BY <1>1, <1>2, <1>3 DEF None

\* The two messages of each generator, in the order of the generators, follow one
\* another.
LEMMA PairsApart ==
    ASSUME NEW i \in Nat, NEW j \in Nat, (i + 1) \div 2 = (j + 1) \div 2, 2 - (i % 2) = 2 - (j % 2)
    PROVE  i = j
  OBVIOUS

\* A poke sends a message of round r of t, to each node once and of the run of t, or
\* it sends none, if it is not the protocol's time to send it.
LEMMA TripleMessagesOnce ==
    ASSUME NEW s, NEW n \in Nodes, NEW b \in 0..MaxTriples, NEW pb \in 0..MaxPresigs,
           NEW prop \in SUBSET (1..pb), NEW order \in SetToSeqs(DOMAIN s.generators),
           Managed(s, n, b, pb, prop), NEW m, NEW t, NEW r
    PROVE  LET f == TripleMessages(s, order)
           IN /\ ~ Sending(s, t, r) => None(f, To(m, Of(t, r)))
              /\ Once(f, To(m, Of(t, r)))
              /\ None(f, To(m, Wrong(Of(t, r), s.run[t])))
<1> DEFINE N == 2 * Len(order)
           S == Sent(n, b, pb, prop)
           all == [i \in 1..(2 * Len(order)) |->
                    [kind |-> "triple", id |-> order[(i + 1) \div 2], from |-> s.me,
                     round |-> 2 - (i % 2), run |-> s.run[order[(i + 1) \div 2]]]]
           I == {i \in DOMAIN all : /\ s.generators[all[i].id].sent < all[i].round
                                    /\ all[i].round <= SentBy(s.generators[all[i].id])}
<1>1. b \in Nat /\ DOMAIN s.generators \in SUBSET (1..b) /\ IsFiniteSet(Nodes \ {s.me})
  <2>1. b \in Nat /\ DOMAIN s.generators \in SUBSET (1..b)
    BY Bounds DEF Managed, TriplesFit
  <2>2. IsFiniteSet(Nodes \ {s.me})
    BY Bounds, FS_Subset
  <2> QED
    BY <2>1, <2>2
<1>2. /\ order \in Seq(DOMAIN s.generators) /\ Len(order) \in Nat
      /\ IsInjective(order) /\ DOMAIN order = 1..Len(order)
  BY <1>1, OrderLists
<1>3. \A i \in 1..N : /\ (i + 1) \div 2 \in 1..Len(order) /\ i \in Nat
                      /\ order[(i + 1) \div 2] \in DOMAIN s.generators
  <2> TAKE i \in 1..N
  <2>1. (i + 1) \div 2 \in 1..Len(order) /\ i \in Nat
    BY <1>2
  <2> QED
    BY <1>2, <2>1, ElementOfSeq
<1>4. /\ N \in Nat /\ DOMAIN all = 1..N /\ I \in SUBSET DOMAIN all
      /\ \A i \in 1..N : /\ all[i].id = order[(i + 1) \div 2] /\ all[i].round = 2 - (i % 2)
                         /\ all[i].run = s.run[all[i].id]
      /\ \A i \in I : Sending(s, all[i].id, all[i].round)
  <2>1. N \in Nat /\ DOMAIN all = 1..N
    BY <1>2
  <2>2. \A i \in 1..N : /\ all[i].id = order[(i + 1) \div 2] /\ all[i].round = 2 - (i % 2)
                        /\ all[i].run = s.run[all[i].id]
    OBVIOUS
  <2>3. \A i \in I : i \in 1..N /\ s.generators[all[i].id].sent < all[i].round
                     /\ all[i].round <= SentBy(s.generators[all[i].id])
    BY <2>1
  <2>4. I \in SUBSET DOMAIN all
    OBVIOUS
  <2> HIDE DEF all, I, N
  <2> QED
    BY <1>3, <2>1, <2>2, <2>3, <2>4 DEF Sending
<1>5. TripleMessages(s, order) = SendMany(Select(all, I), Nodes \ {s.me})
  BY DEF TripleMessages
<1> DEFINE U == {all[i] : i \in 1..N}
<1>6. all \in Seq(U)
  <2>1. all = [i \in 1..N |-> all[i]]
    BY <1>4
  <2> HIDE DEF all, N
  <2>2. all \in [1..N -> U]
    BY <2>1
  <2> HIDE DEF U
  <2> QED
    BY <1>4, <2>2
<1> HIDE DEF N, S, all, I, U
<1>7. Once(all, Of(t, r))
  <2> SUFFICES ASSUME NEW i \in 1..N, NEW j \in 1..N, all[i] \in Of(t, r), all[j] \in Of(t, r)
               PROVE  i = j
    BY <1>4 DEF Once
  <2>1. all[i].id = all[j].id /\ all[i].round = all[j].round
    BY DEF Of
  <2>2. (i + 1) \div 2 = (j + 1) \div 2
    <3> DEFINE x == (i + 1) \div 2
               y == (j + 1) \div 2
    <3>1. x \in DOMAIN order /\ y \in DOMAIN order
      BY <1>2, <1>3
    <3>2. order[x] = order[y]
      BY <1>4, <2>1
    <3> HIDE DEF x, y
    <3>3. x = y
      BY <1>2, <3>1, <3>2 DEF IsInjective
    <3> QED
      BY <3>3 DEF x, y
  <2>3. 2 - (i % 2) = 2 - (j % 2) /\ i \in Nat /\ j \in Nat
    BY <1>3, <1>4, <2>1
  <2> QED
    BY <2>2, <2>3, PairsApart
<1>8. None(all, Wrong(Of(t, r), s.run[t]))
  BY <1>4 DEF None, Wrong, Of
<1>9. ~ Sending(s, t, r) => \A i \in I : all[i] \notin Of(t, r)
  BY <1>4 DEF Of
<1> DEFINE g == Select(all, I)
<1>10. /\ g \in Seq(U) /\ Once(g, Of(t, r)) /\ None(g, Wrong(Of(t, r), s.run[t]))
       /\ ~ Sending(s, t, r) => None(g, Of(t, r))
  <2>1. g \in Seq(U)
    BY <1>4, <1>6, SelectAt
  <2>2. Once(g, Of(t, r))
    <3> HIDE DEF g
    <3> QED
      BY <1>4, <1>6, <1>7, SelectOnce DEF g
  <2>3. None(g, Wrong(Of(t, r), s.run[t]))
    <3> DEFINE W == Wrong(Of(t, r), s.run[t])
    <3>1. None(all, W)
      BY <1>8
    <3> HIDE DEF W
    <3>2. None(Select(all, I), W)
      BY <1>4, <1>6, <3>1, SelectOnce
    <3> QED
      BY <3>2 DEF W
  <2>4. ~ Sending(s, t, r) => None(g, Of(t, r))
    <3> HIDE DEF g
    <3> QED
      BY <1>4, <1>6, <1>9, SelectOnce DEF g
  <2> QED
    BY <2>1, <2>2, <2>3, <2>4
<1> HIDE DEF g
<1> DEFINE f == SendMany(g, Nodes \ {s.me})
<1>11. /\ ~ Sending(s, t, r) => None(f, To(m, Of(t, r)))
       /\ Once(f, To(m, Of(t, r)))
       /\ None(f, To(m, Wrong(Of(t, r), s.run[t])))
  <2> HIDE DEF f
  <2> QED
    BY <1>1, <1>10, SendManyOnce DEF f
<1> QED
  BY <1>5, <1>11 DEF g

\* A node sends nothing that follows what the receiver has not heard: it has gone on
\* to a message of round r only after it heard the receiver's message before it,
\* which the receiver sent after hearing this node's one before.
LEMMA SendingCaughtUp ==
    ASSUME NEW n \in Nodes, NEW m \in Nodes \ {n},
           NEW b \in 0..MaxTriples, NEW pb \in 0..MaxPresigs, NEW prop \in SUBSET (1..pb),
           NEW b2 \in 0..MaxTriples, NEW pb2 \in 0..MaxPresigs, NEW prop2 \in SUBSET (1..pb2),
           NEW s, Managed(s, n, b, pb, prop), NEW d, Managed(d, m, b2, pb2, prop2),
           OwnRuns(d), NEW t \in TripleIds, NEW r \in 1..2, Sending(s, t, r),
           HeardRuns(s, t, 1, m) <= SentRuns(d, t, 1), HeardRuns(s, t, 2, m) <= SentRuns(d, t, 2),
           HeardRuns(d, t, r, n) <= SentRuns(s, t, r)
    PROVE  HeardRuns(d, t, r, n) = SentRuns(s, t, r) /\ s.run[t] = SentRuns(s, t, r) + 1
<1> DEFINE k == s.run[t]
           c == SentRuns(s, t, r)
<1>1. \A x \in 1..2 :
        /\ SentRuns(s, t, x) \in Nat /\ HeardRuns(s, t, x, m) \in Nat
        /\ k <= HeardRuns(s, t, x, m) + 1
        /\ SentRuns(d, t, x) \in Nat /\ HeardRuns(d, t, x, n) \in Nat
        /\ SentRuns(d, t, x) <= d.run[t] /\ d.run[t] <= HeardRuns(d, t, x, n) + 1
        /\ d.run[t] \in Nat /\ k \in Nat
  BY CountsTyped
<1>2. c = k - 1
  BY DEF Sending, SentRuns
<1>3. SentRuns(d, t, 2) <= HeardRuns(d, t, 1, n)
  <2>1. RoundsInOrder(d)
    BY DEF OwnRuns
  <2> QED
    BY <2>1, SecondAfterFirst
<1>4. CASE r = 1
  BY <1>1, <1>2, <1>3, <1>4
<1>5. CASE r = 2
  <2>1. HeardRuns(s, t, 1, m) = k
    <3>1. /\ t \in DOMAIN s.generators /\ SentBy(s.generators[t]) >= 2
          /\ s.generators[t].me = n
      BY <1>5 DEF Sending, Managed, Shaped, TriplesFit, Protocols
    <3>2. s.generators[t].heard[1][m] # 0
      BY <3>1 DEF SentBy, HeardAll
    <3> QED
      BY <3>2 DEF HeardRuns
  <2> QED
    BY <1>1, <1>2, <1>5, <2>1
<1> QED
  BY <1>4, <1>5

\* A queue that grows by u, when nothing of M is in u and when it is sent.
LEMMA SendRoute ==
    ASSUME NEW S, NEW o \in Seq(S), NEW u \in Seq(S), NEW f, NEW g, NEW m, NEW t, NEW r,
           NEW c \in Nat, NEW h \in Nat, Route(o, f, g, m, t, r, c, h)
    PROVE  /\ Route(<<>>, f, g, m, t, r, c, h)
           /\ None(u, To(m, Of(t, r))) => Route(o \o u, f, g, m, t, r, c, h)
           /\ \A k : k = c + 1 /\ h = c =>
                /\ Route(<<>>, f, g, m, t, r, k, h)
                /\ Once(u, To(m, Of(t, r))) /\ None(u, To(m, Wrong(Of(t, r), k)))
                     => Route(o \o u, f, g, m, t, r, k, h)
<1> DEFINE M == To(m, Of(t, r))
           W(k) == To(m, Wrong(Of(t, r), k))
<1>1. /\ None(o \o u, M) <=> None(o, M) /\ None(u, M)
      /\ Once(o, M) /\ None(u, M) => Once(o \o u, M)
      /\ None(o, M) /\ Once(u, M) => Once(o \o u, M)
  <2> HIDE DEF M
  <2> QED
    BY ConcatOnce
<1>2. \A k : /\ None(o \o u, W(k)) <=> None(o, W(k)) /\ None(u, W(k))
             /\ None(u, M) => None(u, W(k))
             /\ None(o, M) => None(o, W(k))
  <2> TAKE k
  <2>1. None(o \o u, W(k)) <=> None(o, W(k)) /\ None(u, W(k))
    <3> HIDE DEF W
    <3> QED
      BY ConcatOnce
  <2> QED
    BY <2>1, WrongWithin
<1>3. None(<<>>, M) /\ Once(<<>>, M) /\ \A k : None(<<>>, W(k))
  BY EmptyNone
<1>4. /\ None(f, Of(t, r)) => None(f, Wrong(Of(t, r), c + 1)) /\ Once(f, Of(t, r))
      /\ None(g, InRound(r)) => None(g, Wrong(InRound(r), c + 1)) /\ Once(g, InRound(r))
  BY WrongWithin
<1>5. Route(<<>>, f, g, m, t, r, c, h)
  BY <1>3 DEF Route, Clear
<1>6. ASSUME None(u, M)
      PROVE  Route(o \o u, f, g, m, t, r, c, h)
  BY <1>1, <1>2, <1>6 DEF Route, Clear
<1>7. ASSUME NEW k, k = c + 1, h = c
      PROVE  /\ Route(<<>>, f, g, m, t, r, k, h)
             /\ Once(u, M) /\ None(u, W(k)) => Route(o \o u, f, g, m, t, r, k, h)
  <2>1. Clear(o, f, g, m, t, r)
    BY <1>7 DEF Route
  <2>2. h <= k /\ k = h + 1
    BY <1>7
  <2>3. /\ None(o, M) /\ None(o, W(k)) /\ None(f, Of(t, r)) /\ None(g, InRound(r))
        /\ None(f, Wrong(Of(t, r), k)) /\ None(g, Wrong(InRound(r), k))
        /\ Once(f, Of(t, r)) /\ Once(g, InRound(r))
    BY <1>2, <1>4, <1>7, <2>1 DEF Clear
  <2>4. Route(<<>>, f, g, m, t, r, k, h)
    BY <1>3, <2>2, <2>3 DEF Route
  <2>5. ASSUME Once(u, M), None(u, W(k))
        PROVE  Route(o \o u, f, g, m, t, r, k, h)
    <3>1. Once(o \o u, M) /\ None(o \o u, W(k))
      BY <1>1, <1>2, <2>3, <2>5
    <3> QED
      BY <2>2, <2>3, <3>1 DEF Route
  <2> QED
    BY <2>4, <2>5
<1> QED
  BY <1>5, <1>6, <1>7

\* The routes to node n before its channel is drained.
Arriving(n, C) ==
    \A t \in TripleIds, r \in 1..2, q \in Nodes \ {n} :
        /\ C[q][t][r] \in Nat
        /\ Route(outbox[q], channel[n][q], TripleBin(node[n], t)[q], n, t, r, C[q][t][r],
                 HeardRuns(node[n], t, r, q))

\* Of s1 and s2, the managers of n before and after the pokes of the triples.
Sends(n, s1, s2) ==
    /\ \A t \in TripleIds, r \in 1..2 :
          /\ SentRuns(s1, t, r) = SentRuns(node[n], t, r)
          /\ SentRuns(s2, t, r) = IF Sending(s1, t, r) THEN s1.run[t] ELSE SentRuns(s1, t, r)
    /\ \A t \in TripleIds, r \in 1..2, q \in Nodes \ {n} :
          HeardRuns(s1, t, r, q) = HeardRuns(node[n], t, r, q)

\* The first half of a turn and the routes.
LEMMA FirstHalfRoutes ==
    ASSUME NEW n \in Nodes, born \in 0..MaxTriples, pborn \in 0..MaxPresigs,
           proposed \in SUBSET (1..pborn), Managed(node[n], n, born, pborn, proposed),
           ArrivedFit(channel[n], born, pborn, proposed),
           NEW s0, NEW s1, NEW o1, NEW own, NEW s2, FirstHalf(n, s0, s1, o1, own, s2),
           OwnRuns(node[n]), NEW C, Arriving(n, C)
    PROVE  LET b == IF WantsTriple(s0) THEN born + 1 ELSE born
           IN /\ b \in 0..MaxTriples /\ Managed(s1, n, b, pborn, proposed)
              /\ OwnRuns(s2) /\ Incoming(s2, n, outbox, C) /\ Sends(n, s1, s2)
<1> DEFINE b == IF WantsTriple(s0) THEN born + 1 ELSE born
           s == node[n]
           a == channel[n]
<1>1. /\ s0 = Push(s, a) /\ o1 \in SetToSeqs(DOMAIN s1.generators) /\ s2 = Poke(s1, o1, own)
      /\ s1 = IF WantsTriple(s0) THEN Generate(s0, born + 1) ELSE s0
  BY DEF FirstHalf
<1>2. DOMAIN s = Fields /\ s.me = n
  BY DEF Managed, Shaped
<1>3. Pushed(s0, s, a)
  BY <1>1, <1>2, PushFields
<1>4. Managed(s0, n, born, pborn, proposed)
  BY <1>3, PushFits
<1>5. /\ s0.run = s.run /\ s0.generators = s.generators /\ s0.triples = s.triples
      /\ s0.me = n
  BY <1>2, <1>3 DEF Pushed, SameBut, Fields
<1>6. OwnRuns(s0)
  BY <1>2, <1>5 DEF OwnRuns, HeardOwn, RoundsInOrder, MadeOfOwn
<1>7. \A t, r : SentRuns(s0, t, r) = SentRuns(s, t, r)
  BY <1>5 DEF SentRuns
<1>8. \A t, r, q : HeardRuns(s0, t, r, q) = HeardRuns(s, t, r, q)
  BY <1>5 DEF HeardRuns
<1>9. Incoming(s0, n, outbox, C)
  <2> SUFFICES ASSUME NEW t \in TripleIds, NEW r \in 1..2, NEW q \in Nodes \ {n}
               PROVE  /\ C[q][t][r] \in Nat
                      /\ Route(outbox[q], <<>>, TripleBin(s0, t)[q], n, t, r, C[q][t][r],
                               HeardRuns(s0, t, r, q))
    BY DEF Incoming
  <2> DEFINE c == C[q][t][r]
             h == HeardRuns(s, t, r, q)
             o == outbox[q]
  <2>1. c \in Nat /\ Route(o, a[q], TripleBin(s, t)[q], n, t, r, c, h) /\ HeardRuns(s0, t, r, q) = h
    BY <1>8 DEF Arriving
  <2> HIDE DEF c, h, o, s, a
  <2>2. Route(o, <<>>, TripleBin(s0, t)[q], n, t, r, c, h)
    BY <1>3, <2>1, PushRoute DEF s, a
  <2> QED
    BY <2>1, <2>2 DEF c, o
<1>10. born \in Nat /\ MaxTriples \in Nat
  BY Bounds
<1>11. b \in 0..MaxTriples /\ (WantsTriple(s0) => born < MaxTriples)
  BY <1>10 DEF WantsTriple
<1>12. Managed(s1, n, b, pborn, proposed) /\ OwnRuns(s1) /\ SameRoutes(s1, s0)
  <2>1. CASE WantsTriple(s0)
    <3>1. s1 = Generate(s0, born + 1) /\ b = born + 1 /\ born < MaxTriples /\ DOMAIN s0 = Fields
      BY <1>1, <1>4, <1>11, <2>1 DEF Managed, Shaped
    <3>2. Generated(s1, s0, b)
      BY <3>1, GenerateFields
    <3> HIDE DEF b
    <3>3. Managed(s1, n, b, pborn, proposed)
      BY <1>4, <3>1, <3>2, GenerateFits
    <3>4. SameRoutes(s1, s0) /\ OwnRuns(s1)
      BY <1>4, <1>6, <3>1, <3>2, GenerateRoutes
    <3> QED
      BY <3>3, <3>4
  <2>2. CASE ~ WantsTriple(s0)
    <3>1. s1 = s0 /\ b = born
      BY <1>1, <2>2
    <3> QED
      BY <1>4, <1>6, <3>1 DEF SameRoutes
  <2> QED
    BY <2>1, <2>2
<1> HIDE DEF b
<1>13. Incoming(s1, n, outbox, C)
  BY <1>5, <1>9, <1>12, SameIncoming
<1>14. Poked(s2, s1, o1, own)
  BY <1>1, <1>12, PokeFields DEF Managed, Shaped
<1>15. /\ \A t \in TripleIds, r \in 1..2 :
             SentRuns(s2, t, r) = IF Sending(s1, t, r) THEN s1.run[t] ELSE SentRuns(s1, t, r)
       /\ \A t \in TripleIds, r \in 1..2, q \in Nodes \ {n} :
             HeardRuns(s2, t, r, q) = HeardRuns(s1, t, r, q)
       /\ \A t \in TripleIds : TripleBin(s2, t) = TripleBin(s1, t)
       /\ OwnRuns(s2)
  BY <1>11, <1>12, <1>14, PokeRoutes
<1>16. Incoming(s2, n, outbox, C)
  BY <1>13, <1>15 DEF Incoming
<1>17. Sends(n, s1, s2)
  BY <1>5, <1>7, <1>8, <1>12, <1>15 DEF Sends, SameRoutes
<1> QED
  BY <1>11, <1>12, <1>15, <1>16, <1>17 DEF b

\* Between the two halves at most two triples are taken.
LEMMA PresigGenerateRoutes ==
    ASSUME NEW s, NEW d, DOMAIN s = Fields,
           d = IF CanPopTwo(s) THEN PresigGenerate(s, pborn + 1) ELSE s
    PROVE  SameTriples(d, s)
<1>1. CASE ~ CanPopTwo(s)
  BY <1>1 DEF SameTriples
<1>2. CASE CanPopTwo(s)
  <2>1. Gone(d, s) \/ Panicked(d, s) \/ Taken(d, s, pborn + 1)
    BY <1>2, PresigGenerateFields DEF CanPopTwo
  <2>2. CASE Gone(d, s)
    BY <2>2 DEF Gone, SameBut, Fields, SameTriples
  <2>3. CASE Panicked(d, s)
    BY <2>3 DEF Panicked, SameBut, Fields, SameTriples
  <2>4. CASE Taken(d, s, pborn + 1)
    <3>1. d.me = s.me /\ d.run = s.run /\ d.generators = s.generators /\ d.bins = s.bins
      BY <2>4 DEF Taken, SameBut, Fields
    <3>2. d.triples = Without(s.triples, {s.mine[1], s.mine[2]})
      BY <2>4 DEF Taken
    <3> QED
      BY <3>1, <3>2 DEF SameTriples, Without
  <2> QED
    BY <2>1, <2>2, <2>3, <2>4
<1> QED
  BY <1>1, <1>2

\* The second half feeds the bins, and otherwise takes triples.
LEMMA SecondHalfRoutes ==
    ASSUME NEW n \in Nodes, NEW b \in 0..MaxTriples, NEW pb \in 0..MaxPresigs,
           NEW prop \in SUBSET (1..pb), NEW s3, Managed(s3, n, b, pb, prop),
           NEW o2, NEW s4, NEW k, NEW s5, NEW o3, NEW s6, NEW J, NEW s7,
           SecondHalf(s3, o2, s4, k, s5, o3, s6, J, s7),
           OwnRuns(s3), NEW O, NEW C, Incoming(s3, n, O, C)
    PROVE  /\ OwnRuns(s7) /\ Incoming(s7, n, O, C)
           /\ \A t \in TripleIds, r \in 1..2 : SentRuns(s7, t, r) = SentRuns(s3, t, r)
<1> DEFINE P == Firsts(s4.pmine, k)
           s56 == SignPoke(s5)
           s67 == HandlePresigs(s6, J)
<1>0. /\ o2 \in SetToSeqs(DOMAIN s3.pgenerators) /\ s4 = PresigPoke(s3, o2)
      /\ k \in 0..Len(s4.pmine) /\ s5 = SignGenerate(s4, k)
      /\ o3 \in SetToSeqs(DOMAIN s5.sgenerators) /\ s6 = HandleTriples(s56)
      /\ J \in JoinSets(s6) /\ s7 \in {HandleSigns(s67), s56}
  BY DEF SecondHalf
<1>1. PresigPoked(s4, s3, o2)
  BY <1>0, PresigPokeFields DEF Managed, Shaped
<1>2. Managed(s4, n, b, pb, prop)
  BY <1>0, <1>1, PresigPokeFits
<1>3. SignGenerated(s5, s4, k)
  BY <1>0, <1>2, SignGenerateFields DEF Managed, Shaped
<1>4. Managed(s5, n, b, pb, prop \cup P) /\ P \subseteq 1..pb
  BY <1>0, <1>2, <1>3, SignGenerateFits
<1> HIDE DEF P, s56, s67
<1>5. prop \cup P \in SUBSET (1..pb)
  BY <1>4
<1>6. SignPoked(s56, s5)
  BY <1>4, SignPokeFields DEF Managed, Shaped, s56
<1>7. Managed(s56, n, b, pb, prop \cup P)
  BY <1>4, <1>5, <1>6, SignPokeFits
<1>8. HandledTriples(s6, s56)
  BY <1>0, <1>7, HandleTriplesFields DEF Managed, Shaped
<1>9. Managed(s6, n, b, pb, prop \cup P)
  BY <1>5, <1>7, <1>8, HandleTriplesFits
<1>10. HandledPresigs(s67, s6, J)
  BY <1>9, HandlePresigsFields DEF Managed, Shaped, s67
<1>11. DOMAIN s67 = Fields
  BY <1>10 DEF HandledPresigs, SameBut
<1>12. HandledSigns(HandleSigns(s67), s67)
  BY <1>11, HandleSignsFields
<1>13. SameTriples(s56, s3)
  BY <1>1, <1>3, <1>6 DEF PresigPoked, SignGenerated, SignPoked, SameBut, Fields, SameTriples
<1>14. OwnRuns(s56) /\ SameRoutes(s56, s3)
  BY <1>13, SameTriplesKeep
<1>15. Incoming(s56, n, O, C)
  BY <1>14, SameIncoming DEF Managed, Shaped
<1>16. /\ OwnRuns(s6) /\ Incoming(s6, n, O, C)
       /\ \A t \in TripleIds, r \in 1..2 : SentRuns(s6, t, r) = SentRuns(s56, t, r)
  BY <1>5, <1>7, <1>8, <1>14, <1>15, HandleTriplesRoutes
<1>17. CASE s7 = HandleSigns(s67)
  <2>1. SameTriples(s7, s6)
    BY <1>10, <1>12, <1>17
       DEF HandledPresigs, HandledSigns, SameBut, Fields, SameTriples, Without
  <2>2. OwnRuns(s7) /\ SameRoutes(s7, s6)
    BY <1>16, <2>1, SameTriplesKeep
  <2>3. Incoming(s7, n, O, C)
    BY <1>9, <1>16, <2>2, SameIncoming DEF Managed, Shaped
  <2> QED
    BY <1>14, <1>16, <2>2, <2>3 DEF SameRoutes
<1>18. CASE s7 = s56
  BY <1>14, <1>15, <1>18 DEF SameRoutes
<1> QED
  BY <1>0, <1>17, <1>18

\* A turn of n with all it computes on the way named.
Turn(n, s0, s1, o1, own, s2, s3, o2, s4, k, s5, o3, s6, J, s7) ==
    /\ FirstHalf(n, s0, s1, o1, own, s2)
    /\ s3 = IF CanPopTwo(s2) THEN PresigGenerate(s2, pborn + 1) ELSE s2
    /\ SecondHalf(s3, o2, s4, k, s5, o3, s6, J, s7)
    /\ node' = [node EXCEPT ![n] = IF s3.panicked THEN s3 ELSE s7]
    /\ channel' = [channel EXCEPT ![n] = EmptyBin]
    /\ outbox' = [outbox EXCEPT ![n] =
          IF s3.panicked THEN <<>>
          ELSE @ \o TripleMessages(s1, o1) \o PresigMessages(s3, o2) \o SignMessages(s5, o3)]
    /\ born' = IF WantsTriple(s0) THEN born + 1 ELSE born
    /\ pborn' = IF pborn + 1 \in DOMAIN s3.pgenerators THEN pborn + 1 ELSE pborn

\* Every turn is one of these.
LEMMA IterateTurns ==
    ASSUME NEW n \in Nodes, Iterate(n)
    PROVE  \E s0, s1, o1, own, s2, s3, o2, s4, k, s5, o3, s6, J, s7 :
              Turn(n, s0, s1, o1, own, s2, s3, o2, s4, k, s5, o3, s6, J, s7)
<1>1. PICK s0, s1, o1, own, s2 :
        /\ s0 = Push(node[n], channel[n])
        /\ s1 = IF WantsTriple(s0) THEN Generate(s0, born + 1) ELSE s0
        /\ o1 \in SetToSeqs(DOMAIN s1.generators)
        /\ s2 = Poke(s1, o1, own)
        /\ Presigns(n, s0, s1, o1, own, s2)
  BY IterateStages
<1>2. PICK s3, o2, s4, k :
        /\ s3 = IF CanPopTwo(s2) THEN PresigGenerate(s2, pborn + 1) ELSE s2
        /\ o2 \in SetToSeqs(DOMAIN s3.pgenerators)
        /\ s4 = PresigPoke(s3, o2) /\ k \in Served(s4)
        /\ Handles(n, s0, s1, o1, own, s3, o2, s4, k)
  BY <1>1 DEF Presigns
<1>3. PICK s5, o3, s6, J, drop, s7 :
        /\ s5 = SignGenerate(s4, k) /\ o3 \in SetToSeqs(DOMAIN s5.sgenerators)
        /\ s6 = HandleTriples(SignPoke(s5)) /\ J \in JoinSets(s6)
        /\ s7 \in {HandleSigns(HandlePresigs(s6, J)), SignPoke(s5)}
        /\ Ends(n, s0, s1, o1, own, s3, o2, s4, k, s5, o3, drop, s7)
  BY <1>2, HandlesStages
<1>4. k \in 0..Len(s4.pmine)
  BY <1>2 DEF Served
<1>5. FirstHalf(n, s0, s1, o1, own, s2)
  BY <1>1 DEF FirstHalf
<1>6. SecondHalf(s3, o2, s4, k, s5, o3, s6, J, s7)
  BY <1>2, <1>3, <1>4 DEF SecondHalf
<1>7. Turn(n, s0, s1, o1, own, s2, s3, o2, s4, k, s5, o3, s6, J, s7)
  BY <1>2, <1>3, <1>5, <1>6 DEF Turn, Ends
<1> QED
  BY <1>7

\* What may be in a queue.
AnyEnvelope == [to : Nodes, msg : MpcMessage]

\* They fit, and presignatures and signatures send their own kind of message.
LEMMA TurnManaged ==
    ASSUME IInv, NEW n \in Nodes, NEW s0, NEW s1, NEW o1, NEW own, NEW s2, NEW s3, NEW o2,
           NEW s4, NEW k, NEW s5, NEW o3, NEW s6, NEW J, NEW s7,
           Turn(n, s0, s1, o1, own, s2, s3, o2, s4, k, s5, o3, s6, J, s7)
    PROVE  /\ born' \in 0..MaxTriples /\ pborn' \in 0..MaxPresigs
           /\ proposed \in SUBSET (1..pborn')
           /\ Managed(s2, n, born', pborn, proposed) /\ Managed(s3, n, born', pborn', proposed)
           /\ outbox[n] \in Seq(AnyEnvelope) /\ TripleMessages(s1, o1) \in Seq(AnyEnvelope)
           /\ PresigMessages(s3, o2) \in Seq(AnyEnvelope)
           /\ PresigMessages(s3, o2) \in Seq([to : Nodes, msg : PresigMessage])
           /\ SignMessages(s5, o3) \in Seq(AnyEnvelope)
           /\ SignMessages(s5, o3) \in Seq([to : Nodes, msg : SignMessage])
<1>1. /\ FirstHalf(n, s0, s1, o1, own, s2)
      /\ s3 = IF CanPopTwo(s2) THEN PresigGenerate(s2, pborn + 1) ELSE s2
      /\ SecondHalf(s3, o2, s4, k, s5, o3, s6, J, s7)
      /\ born' = IF WantsTriple(s0) THEN born + 1 ELSE born
      /\ pborn' = IF pborn + 1 \in DOMAIN s3.pgenerators THEN pborn + 1 ELSE pborn
  BY DEF Turn
<1>2. /\ born \in 0..MaxTriples /\ pborn \in 0..MaxPresigs /\ proposed \in SUBSET (1..pborn)
      /\ Managed(node[n], n, born, pborn, proposed)
      /\ ArrivedFit(channel[n], born, pborn, proposed)
      /\ outbox[n] \in Seq(Envelopes(n, born, pborn, proposed))
  BY DEF IInv, NodesFit, QueuesFit, ArrivedFit
<1> DEFINE b == IF WantsTriple(s0) THEN born + 1 ELSE born
           pb == IF pborn + 1 \in DOMAIN s3.pgenerators THEN pborn + 1 ELSE pborn
<1>3. /\ b \in 0..MaxTriples /\ Managed(s2, n, b, pborn, proposed)
      /\ TripleMessages(s1, o1) \in Seq(Envelopes(n, b, pborn, proposed))
  BY <1>1, <1>2, FirstHalfFits
<1>4. b = born' /\ pb = pborn'
  BY <1>1
<1> HIDE DEF b
<1>5. pb \in 0..MaxPresigs /\ pborn <= pb /\ Managed(s3, n, b, pb, proposed)
  BY <1>1, <1>2, <1>3, PresigGenerateFits
<1> HIDE DEF pb
<1>6. proposed \in SUBSET (1..pb)
  BY <1>2, <1>5, Bounds
<1>7. /\ PresigMessages(s3, o2) \in Seq(Envelopes(n, b, pb, proposed))
      /\ PresigMessages(s3, o2) \in Seq([to : Nodes, msg : PresigMessage])
  BY <1>1, <1>3, <1>5, <1>6, PresigMessagesTyped DEF SecondHalf
<1> DEFINE P == Firsts(s4.pmine, k)
<1>8. Managed(s5, n, b, pb, proposed \cup P) /\ proposed \cup P \in SUBSET (1..pb)
  <2>1. s4 = PresigPoke(s3, o2) /\ k \in 0..Len(s4.pmine) /\ s5 = SignGenerate(s4, k)
        /\ o2 \in SetToSeqs(DOMAIN s3.pgenerators)
    BY <1>1 DEF SecondHalf
  <2>2. PresigPoked(s4, s3, o2)
    BY <1>5, <2>1, PresigPokeFields DEF Managed, Shaped
  <2>3. Managed(s4, n, b, pb, proposed)
    BY <1>3, <1>5, <1>6, <2>1, <2>2, PresigPokeFits
  <2>4. SignGenerated(s5, s4, k)
    BY <2>1, <2>3, SignGenerateFields DEF Managed, Shaped
  <2>5. Managed(s5, n, b, pb, proposed \cup P) /\ P \subseteq 1..pb
    BY <1>3, <1>5, <1>6, <2>1, <2>3, <2>4, SignGenerateFits
  <2> HIDE DEF P
  <2> QED
    BY <1>6, <2>5
<1> HIDE DEF P
<1>9. /\ SignMessages(s5, o3) \in Seq(Envelopes(n, b, pb, proposed \cup P))
      /\ SignMessages(s5, o3) \in Seq([to : Nodes, msg : SignMessage])
  BY <1>1, <1>3, <1>5, <1>8, SignMessagesTyped DEF SecondHalf
<1>10. \A x, y, z : Seq(Envelopes(n, x, y, z)) \subseteq Seq(AnyEnvelope)
  <2> TAKE x, y, z
  <2>1. Envelopes(n, x, y, z) \subseteq AnyEnvelope
    BY DEF Envelopes, Sent, AnyEnvelope
  <2> QED
    BY <2>1, SeqMonotonic
<1> QED
  BY <1>2, <1>3, <1>4, <1>5, <1>6, <1>7, <1>9, <1>10

\* The runs every node has sent.
Counts == [q \in Nodes |-> [t \in TripleIds |-> [r \in 1..2 |-> SentRuns(node[q], t, r)]]]

\* The routes at n after its turn, in terms of those before it.
LEMMA TurnRoutes ==
    ASSUME IInv, Routes, NEW n \in Nodes, NEW s0, NEW s1, NEW o1, NEW own, NEW s2, NEW s3,
           NEW o2, NEW s4, NEW k, NEW s5, NEW o3, NEW s6, NEW J, NEW s7,
           Turn(n, s0, s1, o1, own, s2, s3, o2, s4, k, s5, o3, s6, J, s7)
    PROVE  /\ OwnRuns(node'[n]) /\ Incoming(node'[n], n, outbox, Counts)
           /\ Sends(n, s1, node'[n]) /\ Managed(s1, n, born', pborn, proposed)
<1>1. /\ FirstHalf(n, s0, s1, o1, own, s2)
      /\ s3 = IF CanPopTwo(s2) THEN PresigGenerate(s2, pborn + 1) ELSE s2
      /\ SecondHalf(s3, o2, s4, k, s5, o3, s6, J, s7)
      /\ born' = IF WantsTriple(s0) THEN born + 1 ELSE born
      /\ node' = [node EXCEPT ![n] = IF s3.panicked THEN s3 ELSE s7]
  BY DEF Turn
<1>2. /\ born \in 0..MaxTriples /\ pborn \in 0..MaxPresigs /\ proposed \in SUBSET (1..pborn)
      /\ \A q \in Nodes : Managed(node[q], q, born, pborn, proposed)
      /\ ArrivedFit(channel[n], born, pborn, proposed) /\ DOMAIN node = Nodes
  BY DEF IInv, NodesFit, QueuesFit, ArrivedFit
<1>3. Arriving(n, Counts)
  <2> SUFFICES ASSUME NEW t \in TripleIds, NEW r \in 1..2, NEW q \in Nodes \ {n}
               PROVE  /\ Counts[q][t][r] \in Nat
                      /\ Route(outbox[q], channel[n][q], TripleBin(node[n], t)[q], n, t, r,
                               Counts[q][t][r], HeardRuns(node[n], t, r, q))
    BY DEF Arriving
  <2>1. Counts[q][t][r] = SentRuns(node[q], t, r)
    BY DEF Counts
  <2>2. SentRuns(node[q], t, r) \in Nat
    BY <1>2, CountsTyped
  <2>3. RouteOf(q, n, t, r)
    BY DEF Routes
  <2> QED
    BY <2>1, <2>2, <2>3 DEF RouteOf
<1>4. OwnRuns(node[n])
  BY DEF Routes
<1> DEFINE b == IF WantsTriple(s0) THEN born + 1 ELSE born
<1>5. /\ Managed(s1, n, b, pborn, proposed)
      /\ OwnRuns(s2) /\ Incoming(s2, n, outbox, Counts) /\ Sends(n, s1, s2)
  <2>1. Managed(node[n], n, born, pborn, proposed)
    BY <1>2
  <2> QED
    BY <1>1, <1>2, <1>3, <1>4, <2>1, FirstHalfRoutes
<1>6. b = born'
  BY <1>1
<1> HIDE DEF b
<1>7. /\ born' \in 0..MaxTriples /\ pborn' \in 0..MaxPresigs /\ proposed \in SUBSET (1..pborn')
      /\ Managed(s2, n, born', pborn, proposed) /\ Managed(s3, n, born', pborn', proposed)
  BY TurnManaged
<1>8. DOMAIN s2 = Fields /\ s2.me = n
  BY <1>7 DEF Managed, Shaped
<1>9. SameTriples(s3, s2)
  BY <1>1, <1>8, PresigGenerateRoutes
<1>10. OwnRuns(s3) /\ SameRoutes(s3, s2)
  BY <1>5, <1>9, SameTriplesKeep
<1>11. Incoming(s3, n, outbox, Counts)
  BY <1>5, <1>8, <1>10, SameIncoming
<1>12. /\ OwnRuns(s7) /\ Incoming(s7, n, outbox, Counts)
       /\ \A t \in TripleIds, r \in 1..2 : SentRuns(s7, t, r) = SentRuns(s3, t, r)
  BY <1>1, <1>7, <1>10, <1>11, SecondHalfRoutes
<1>13. node'[n] = s3 \/ node'[n] = s7
  BY <1>1, <1>2
<1>14. \A t \in TripleIds, r \in 1..2 : SentRuns(node'[n], t, r) = SentRuns(s2, t, r)
  BY <1>10, <1>12, <1>13 DEF SameRoutes
<1>15. Sends(n, s1, node'[n])
  BY <1>5, <1>14 DEF Sends
<1> QED
  BY <1>5, <1>6, <1>10, <1>11, <1>12, <1>13, <1>15

\* The route from n to m after a turn of n.
LEMMA TurnSends ==
    ASSUME IInv, Routes, NEW n \in Nodes, NEW s0, NEW s1, NEW o1, NEW own, NEW s2, NEW s3,
           NEW o2, NEW s4, NEW k, NEW s5, NEW o3, NEW s6, NEW J, NEW s7,
           Turn(n, s0, s1, o1, own, s2, s3, o2, s4, k, s5, o3, s6, J, s7),
           NEW m \in Nodes \ {n}, NEW t \in TripleIds, NEW r \in 1..2
    PROVE  Route(outbox'[n], channel[m][n], TripleBin(node[m], t)[n], m, t, r,
                 SentRuns(node'[n], t, r), HeardRuns(node[m], t, r, n))
<1> DEFINE o == outbox[n]
           f == channel[m][n]
           g == TripleBin(node[m], t)[n]
           c == SentRuns(node[n], t, r)
           e == SentRuns(node'[n], t, r)
           h == HeardRuns(node[m], t, r, n)
           u == TripleMessages(s1, o1)
           v == PresigMessages(s3, o2)
           w == SignMessages(s5, o3)
           M == To(m, Of(t, r))
<1>1. /\ FirstHalf(n, s0, s1, o1, own, s2)
      /\ outbox' = [outbox EXCEPT ![n] = IF s3.panicked THEN <<>> ELSE o \o u \o v \o w]
  BY DEF Turn
<1>2. /\ born \in 0..MaxTriples /\ pborn \in 0..MaxPresigs /\ proposed \in SUBSET (1..pborn)
      /\ \A q \in Nodes : Managed(node[q], q, born, pborn, proposed)
      /\ DOMAIN outbox = Nodes
  BY DEF IInv, NodesFit, QueuesFit
<1>3. Sends(n, s1, node'[n]) /\ Managed(s1, n, born', pborn, proposed)
  BY TurnRoutes
<1>4. /\ o \in Seq(AnyEnvelope) /\ u \in Seq(AnyEnvelope)
      /\ v \in Seq(AnyEnvelope) /\ v \in Seq([to : Nodes, msg : PresigMessage])
      /\ w \in Seq(AnyEnvelope) /\ w \in Seq([to : Nodes, msg : SignMessage])
      /\ born' \in 0..MaxTriples
  BY TurnManaged
<1>5. None(v, M) /\ None(w, M)
  <2>1. Of(t, r) \in SUBSET TripleMessage
    BY DEF Of
  <2> QED
    BY <1>4, <2>1, OthersNone
<1>6. o1 \in SetToSeqs(DOMAIN s1.generators)
  BY <1>1 DEF FirstHalf
<1>7. /\ ~ Sending(s1, t, r) => None(u, M)
      /\ Once(u, M) /\ None(u, To(m, Wrong(Of(t, r), s1.run[t])))
  BY <1>2, <1>3, <1>4, <1>6, TripleMessagesOnce
<1>8. Route(o, f, g, m, t, r, c, h) /\ c \in Nat /\ h \in Nat
  <2>1. RouteOf(n, m, t, r)
    BY DEF Routes
  <2>2. Managed(node[n], n, born, pborn, proposed) /\ Managed(node[m], m, born, pborn, proposed)
    BY <1>2
  <2> QED
    BY <1>2, <2>1, <2>2, CountsTyped DEF RouteOf
<1>9. SentRuns(s1, t, r) = c /\ e = IF Sending(s1, t, r) THEN s1.run[t] ELSE c
  BY <1>3 DEF Sends
<1>10. Sending(s1, t, r) => h = c /\ s1.run[t] = c + 1
  <2> SUFFICES ASSUME Sending(s1, t, r)
               PROVE  h = c /\ s1.run[t] = c + 1
    OBVIOUS
  <2>1. RouteOf(m, n, t, 1) /\ RouteOf(m, n, t, 2) /\ OwnRuns(node[m])
    BY DEF Routes
  <2>2. /\ HeardRuns(node[n], t, 1, m) <= SentRuns(node[m], t, 1)
        /\ HeardRuns(node[n], t, 2, m) <= SentRuns(node[m], t, 2)
    BY <2>1 DEF RouteOf, Route
  <2>3. /\ HeardRuns(s1, t, 1, m) = HeardRuns(node[n], t, 1, m)
        /\ HeardRuns(s1, t, 2, m) = HeardRuns(node[n], t, 2, m)
    BY <1>3 DEF Sends
  <2>4. h <= SentRuns(s1, t, r)
    BY <1>8, <1>9 DEF Route
  <2>5. Managed(node[m], m, born, pborn, proposed)
    BY <1>2
  <2>6. HeardRuns(node[m], t, r, n) = SentRuns(s1, t, r) /\ s1.run[t] = SentRuns(s1, t, r) + 1
    BY <1>2, <1>3, <1>4, <2>1, <2>2, <2>3, <2>4, <2>5, SendingCaughtUp
  <2> QED
    BY <1>9, <2>6
<1> HIDE DEF o, f, g, c, e, h, u, v, w
<1>11. Route(<<>>, f, g, m, t, r, e, h) /\ Route(o \o u, f, g, m, t, r, e, h) /\ e \in Nat
  <2>1. CASE Sending(s1, t, r)
    <3>1. e = c + 1 /\ h = c /\ None(u, To(m, Wrong(Of(t, r), e)))
      BY <1>7, <1>9, <1>10, <2>1
    <3> QED
      BY <1>4, <1>7, <1>8, <3>1, SendRoute
  <2>2. CASE ~ Sending(s1, t, r)
    <3>1. e = c /\ None(u, M)
      BY <1>7, <1>9, <2>2
    <3> QED
      BY <1>4, <1>8, <3>1, SendRoute
  <2> QED
    BY <2>1, <2>2
<1>12. Route(o \o u \o v \o w, f, g, m, t, r, e, h)
  <2> DEFINE x == o \o u
             y == x \o v
  <2>1. x \in Seq(AnyEnvelope) /\ y \in Seq(AnyEnvelope)
    BY <1>4, ConcatProperties
  <2> HIDE DEF x
  <2>2. Route(y, f, g, m, t, r, e, h)
    BY <1>4, <1>5, <1>8, <1>11, <2>1, SendRoute DEF x
  <2> HIDE DEF y
  <2>3. Route(y \o w, f, g, m, t, r, e, h)
    BY <1>4, <1>5, <1>8, <1>11, <2>1, <2>2, SendRoute
  <2> QED
    BY <2>3 DEF x, y
<1>13. outbox'[n] = <<>> \/ outbox'[n] = o \o u \o v \o w
  BY <1>1, <1>2
<1>14. Route(outbox'[n], f, g, m, t, r, e, h)
  BY <1>11, <1>12, <1>13
<1> QED
  BY <1>14 DEF f, g, e, h

\* A turn keeps the routes.
LEMMA IterateRoutes ==
    ASSUME IInv, Routes, NEW n \in Nodes, Iterate(n)
    PROVE  Routes'
<1>1. PICK s0, s1, o1, own, s2, s3, o2, s4, k, s5, o3, s6, J, s7 :
        Turn(n, s0, s1, o1, own, s2, s3, o2, s4, k, s5, o3, s6, J, s7)
  BY IterateTurns
<1>2. OwnRuns(node'[n]) /\ Incoming(node'[n], n, outbox, Counts)
  BY <1>1, TurnRoutes
<1>3. DOMAIN node = Nodes /\ DOMAIN channel = Nodes /\ DOMAIN outbox = Nodes
  BY DEF IInv, NodesFit, QueuesFit
<1>4. /\ \A q \in Nodes \ {n} : /\ node'[q] = node[q] /\ outbox'[q] = outbox[q]
                                /\ channel'[q] = channel[q]
      /\ channel'[n] = EmptyBin
  BY <1>1, <1>3 DEF Turn
<1>5. \A q \in Nodes : OwnRuns(node'[q])
  BY <1>2, <1>4 DEF Routes
<1>6. ASSUME NEW q \in Nodes, NEW m \in Nodes, q # m, NEW t \in TripleIds, NEW r \in 1..2
      PROVE  Route(outbox'[q], channel'[m][q], TripleBin(node'[m], t)[q], m, t, r,
                   SentRuns(node'[q], t, r), HeardRuns(node'[m], t, r, q))
  <2>1. CASE m = n
    <3>1. Counts[q][t][r] = SentRuns(node[q], t, r)
      BY DEF Counts
    <3>2. Route(outbox[q], <<>>, TripleBin(node'[n], t)[q], n, t, r, Counts[q][t][r],
                HeardRuns(node'[n], t, r, q))
      BY <1>2, <1>6, <2>1 DEF Incoming
    <3>3. channel'[n][q] = <<>>
      BY <1>4 DEF EmptyBin
    <3> QED
      BY <1>4, <1>6, <2>1, <3>1, <3>2, <3>3
  <2>2. CASE q = n
    <3>1. m \in Nodes \ {n}
      BY <1>6, <2>2
    <3>2. Route(outbox'[n], channel[m][n], TripleBin(node[m], t)[n], m, t, r,
                SentRuns(node'[n], t, r), HeardRuns(node[m], t, r, n))
      BY <1>1, <3>1, TurnSends
    <3> QED
      BY <1>4, <2>2, <3>1, <3>2
  <2>3. CASE q # n /\ m # n
    <3>1. RouteOf(q, m, t, r)
      BY <1>6 DEF Routes
    <3> QED
      BY <1>4, <2>3, <3>1 DEF RouteOf
  <2> QED
    BY <2>1, <2>2, <2>3
<1> QED
  BY <1>5, <1>6 DEF Routes, RouteOf

\* A message that leaves the queue for the channel stays on its route.
LEMMA MoveRoute ==
    ASSUME NEW o \in Seq(AnyEnvelope), o # <<>>, NEW f \in Seq(MpcMessage), NEW g, NEW m, NEW t,
           NEW r, NEW c, NEW h, Route(o, f, g, m, t, r, c, h)
    PROVE  /\ Head(o).to = m => Route(Tail(o), Append(f, Head(o).msg), g, m, t, r, c, h)
           /\ Head(o).to # m => Route(Tail(o), f, g, m, t, r, c, h)
<1> DEFINE e == Head(o)
           M == To(m, Of(t, r))
           W == To(m, Wrong(Of(t, r), c))
           N == Of(t, r)
           V == Wrong(Of(t, r), c)
           x == e.msg
           p == Append(f, x)
           y == Tail(o)
<1>1. e \in AnyEnvelope /\ x \in MpcMessage
  <2>1. e \in AnyEnvelope
    BY HeadTailProperties
  <2> QED
    BY <2>1 DEF AnyEnvelope
<1>2. /\ e \in M <=> e.to = m /\ x \in N
      /\ e \in W <=> e.to = m /\ x \in V
  <2> HIDE DEF e
  <2>1. e = [to |-> e.to, msg |-> e.msg]
    BY <1>1 DEF AnyEnvelope
  <2> QED
    BY <2>1 DEF To
<1> HIDE DEF M, W, N, V
<1>3. /\ None(o, M) <=> e \notin M /\ None(y, M)
      /\ None(o, W) <=> e \notin W /\ None(y, W)
      /\ Once(o, M) => Once(y, M)
      /\ Once(o, M) /\ e \in M => None(y, M)
  BY TailOnce
<1>4. /\ None(p, N) <=> None(f, N) /\ x \notin N
      /\ None(p, V) <=> None(f, V) /\ x \notin V
      /\ Once(f, N) /\ x \notin N => Once(p, N)
      /\ None(f, N) => Once(p, N)
  <2> HIDE DEF x
  <2> QED
    BY <1>1, AppendOnce
<1>5. /\ h <= c /\ None(o, W) /\ None(f, V) /\ None(g, Wrong(InRound(r), c))
      /\ Once(o, M) /\ Once(f, N) /\ Once(g, InRound(r))
      /\ None(o, M) \/ (None(f, N) /\ None(g, InRound(r)))
      /\ None(f, N) \/ None(g, InRound(r))
      /\ c = h + 1 \/ (None(o, M) /\ None(f, N) /\ None(g, InRound(r)))
  BY DEF Route, Clear, M, W, N, V
<1> HIDE DEF e, x, p, y
<1>6. ASSUME e.to = m
      PROVE  Route(y, p, g, m, t, r, c, h)
  <2>1. /\ h <= c /\ None(y, W) /\ None(p, V) /\ None(g, Wrong(InRound(r), c))
        /\ Once(y, M) /\ Once(p, N) /\ Once(g, InRound(r))
        /\ None(y, M) \/ (None(p, N) /\ None(g, InRound(r)))
        /\ None(p, N) \/ None(g, InRound(r))
        /\ c = h + 1 \/ (None(y, M) /\ None(p, N) /\ None(g, InRound(r)))
    BY <1>2, <1>3, <1>4, <1>5, <1>6
  <2> QED
    BY <2>1 DEF Route, Clear, M, W, N, V
<1>7. ASSUME e.to # m
      PROVE  Route(y, f, g, m, t, r, c, h)
  <2>1. /\ h <= c /\ None(y, W) /\ None(f, V) /\ None(g, Wrong(InRound(r), c))
        /\ Once(y, M) /\ Once(f, N) /\ Once(g, InRound(r))
        /\ None(y, M) \/ (None(f, N) /\ None(g, InRound(r)))
        /\ None(f, N) \/ None(g, InRound(r))
        /\ c = h + 1 \/ (None(y, M) /\ None(f, N) /\ None(g, InRound(r)))
    BY <1>2, <1>3, <1>5, <1>7
  <2> QED
    BY <2>1 DEF Route, Clear, M, W, N, V
<1> QED
  BY <1>6, <1>7 DEF e, x, p, y

\* A message that arrives, and is not sent again.
LEMMA ArriveRoutes ==
    ASSUME IInv, Routes, NEW n \in Nodes, Arrive(n),
           outbox' = [outbox EXCEPT ![n] = Tail(@)]
    PROVE  Routes'
<1> DEFINE e == Head(outbox[n])
<1>1. /\ outbox[n] # <<>> /\ node' = node
      /\ channel' = [channel EXCEPT ![e.to][n] = Append(@, e.msg)]
  BY DEF Arrive, SendEncrypted
<1>2. /\ DOMAIN outbox = Nodes /\ DOMAIN channel = Nodes
      /\ \A q \in Nodes : DOMAIN channel[q] = Nodes
  BY DEF IInv, QueuesFit
<1>3. outbox[n] \in Seq(AnyEnvelope) /\ \A p, q \in Nodes : channel[p][q] \in Seq(MpcMessage)
  <2>1. \A x, y, z, q : /\ Envelopes(n, x, y, z) \subseteq AnyEnvelope
                        /\ Sent(q, x, y, z) \subseteq MpcMessage
    BY DEF Envelopes, Sent, AnyEnvelope
  <2>2. /\ outbox[n] \in Seq(Envelopes(n, born, pborn, proposed))
        /\ \A p, q \in Nodes : channel[p][q] \in Seq(Sent(q, born, pborn, proposed))
    BY DEF IInv, QueuesFit
  <2> QED
    BY <2>1, <2>2, SeqMonotonic
<1>4. e.to \in Nodes
  <2>1. e \in AnyEnvelope
    BY <1>1, <1>3, HeadTailProperties
  <2> QED
    BY <2>1 DEF AnyEnvelope
<1> HIDE DEF e
<1>5. ASSUME NEW q \in Nodes, NEW m \in Nodes, q # m, NEW t \in TripleIds, NEW r \in 1..2
      PROVE  Route(outbox'[q], channel'[m][q], TripleBin(node[m], t)[q], m, t, r,
                   SentRuns(node[q], t, r), HeardRuns(node[m], t, r, q))
  <2> DEFINE g == TripleBin(node[m], t)[q]
             c == SentRuns(node[q], t, r)
             h == HeardRuns(node[m], t, r, q)
  <2>1. Route(outbox[q], channel[m][q], g, m, t, r, c, h)
    BY <1>5 DEF Routes, RouteOf
  <2> HIDE DEF g, c, h
  <2>2. CASE q # n
    <3>1. outbox'[q] = outbox[q] /\ channel'[m][q] = channel[m][q]
      BY <1>1, <1>2, <1>4, <2>2
    <3> QED
      BY <2>1, <3>1 DEF g, c, h
  <2>3. CASE q = n
    <3> DEFINE o == outbox[n]
               f == channel[m][n]
    <3>1. o \in Seq(AnyEnvelope) /\ o # <<>> /\ f \in Seq(MpcMessage) /\ e = Head(o)
          /\ Route(o, f, g, m, t, r, c, h)
      BY <1>1, <1>3, <2>1, <2>3 DEF e
    <3>2. outbox'[n] = Tail(o)
      BY <1>2
    <3>3. /\ e.to = m => channel'[m][n] = Append(f, e.msg)
          /\ e.to # m => channel'[m][n] = f
      BY <1>1, <1>2, <1>4
    <3> HIDE DEF o, f
    <3>4. /\ e.to = m => Route(Tail(o), Append(f, e.msg), g, m, t, r, c, h)
          /\ e.to # m => Route(Tail(o), f, g, m, t, r, c, h)
      BY <3>1, MoveRoute
    <3>5. Route(outbox'[n], channel'[m][n], g, m, t, r, c, h)
      BY <3>2, <3>3, <3>4
    <3> QED
      BY <2>3, <3>5 DEF g, c, h
  <2> QED
    BY <2>2, <2>3
<1> QED
  BY <1>1, <1>5 DEF Routes, RouteOf

\* In the beginning nothing is sent.
LEMMA InitRoutes == Init => Routes
<1> SUFFICES ASSUME Init PROVE Routes
  OBVIOUS
<1>1. ASSUME NEW n \in Nodes
      PROVE  /\ node[n].triples = <<>> /\ node[n].generators = <<>> /\ node[n].bins = <<>>
             /\ node[n].run = [t \in TripleIds |-> 0]
             /\ outbox[n] = <<>> /\ \A q \in Nodes : channel[n][q] = <<>>
  BY DEF Init, NewManagers, EmptyBin
<1>2. DOMAIN <<>> = {}
  OBVIOUS
<1>3. \A n \in Nodes : OwnRuns(node[n])
  BY <1>1, <1>2 DEF OwnRuns, HeardOwn, RoundsInOrder, MadeOfOwn
<1>4. ASSUME NEW q \in Nodes, NEW n \in Nodes, NEW t \in TripleIds, NEW r \in 1..2
      PROVE  RouteOf(q, n, t, r)
  <2>1. SentRuns(node[q], t, r) = 0 /\ HeardRuns(node[n], t, r, q) = 0
    BY <1>1, <1>2 DEF SentRuns, HeardRuns
  <2>2. TripleBin(node[n], t)[q] = <<>>
    BY <1>1, <1>2 DEF TripleBin, EmptyBin
  <2>3. outbox[q] = <<>> /\ channel[n][q] = <<>>
    BY <1>1
  <2>4. Route(<<>>, <<>>, <<>>, n, t, r, 0, 0)
    BY EmptyNone DEF Route, Clear
  <2> QED
    BY <2>1, <2>2, <2>3, <2>4 DEF RouteOf
<1> QED
  BY <1>3, <1>4 DEF Routes

\* As long as no message was sent again.
RoutesHold == repeats \in Nat /\ (repeats = 0 => Routes)

\* What a node holds was made of messages of one run, its own, although bins outlive
\* the triples, get_or_generate runs spent ids again, no message says which run it is
\* of, and turns and deliveries come in any order; only a message that is delivered
\* twice can end up in the next run.
THEOREM RunsDoNotMix == Spec => []OneRun
<1>1. Init => RoutesHold
  BY InitRoutes DEF Init, RoutesHold
<1>2. IInv /\ RoutesHold /\ [Next]_vars => RoutesHold'
  <2> SUFFICES ASSUME IInv, RoutesHold, [Next]_vars PROVE RoutesHold'
    OBVIOUS
  <2>1. ASSUME NEW n \in Nodes, Iterate(n) PROVE RoutesHold'
    <3>1. repeats' = repeats
      BY <2>1 DEF Iterate
    <3>2. Routes => Routes'
      BY <2>1, IterateRoutes
    <3> QED
      BY <3>1, <3>2 DEF RoutesHold
  <2>2. ASSUME NEW n \in Nodes, Arrive(n) PROVE RoutesHold'
    <3>1. CASE outbox' = [outbox EXCEPT ![n] = Tail(@)] /\ UNCHANGED repeats
      <4>1. Routes => Routes'
        BY <2>2, <3>1, ArriveRoutes
      <4> QED
        BY <3>1, <4>1 DEF RoutesHold
    <3>2. CASE repeats' = repeats + 1
      BY <3>2 DEF RoutesHold
    <3> QED
      BY <2>2, <3>1, <3>2 DEF Arrive
  <2>3. CASE UNCHANGED vars
    <3>1. Routes => Routes'
      BY <2>3 DEF vars, Routes, RouteOf
    <3> QED
      BY <2>3, <3>1 DEF vars, RoutesHold
  <2> QED
    BY <2>1, <2>2, <2>3 DEF Next
<1>3. RoutesHold => OneRun
  BY DEF RoutesHold, Routes, OwnRuns, MadeOfOwn, OneRun
<1> QED
  BY RunningInvariant, <1>1, <1>2, <1>3, PTL DEF Spec

=============================================================================
