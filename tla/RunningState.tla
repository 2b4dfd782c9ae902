---------------------------- MODULE RunningState ----------------------------
(***************************************************************************)
(* The running nodes of one epoch: their triple, presignature and          *)
(* signature managers, the message queues between them and RunningState,   *)
(* which drives them (node/src/protocol/{triple,presignature,signature,    *)
(* message,cryptography}.rs and node/src/http_client.rs).                  *)
(*                                                                         *)
(* A node runs one loop: it drains its channel into the message bins,      *)
(* calls progress (start protocols, poke them, queue what they send) and   *)
(* then handle (feed the bins to the protocols).  Nothing but the channel  *)
(* is shared, so one turn of the loop is one step, Iterate.                *)
(*                                                                         *)
(* cait-sith is external.  A triple generation is two exchanges: a party   *)
(* sends to everyone, waits until it has heard everyone, does so again and *)
(* returns.  A presignature or a signature is one exchange.  A second      *)
(* message of a sender for the same exchange is ignored, and nothing in a  *)
(* message says which run of the generation it belongs to; the field `run' *)
(* only serves the properties.                                             *)
(*                                                                         *)
(* A request meets its presignature when its proposer takes one for it,    *)
(* and is named by that presignature from then on.                         *)
(***************************************************************************)
EXTENDS Integers, Sequences, FiniteSets, SequencesExt

CONSTANTS
    Nodes,        \* the participants of the epoch
    LowWater,     \* progress starts protocols below this many of its own (2)
    PoolLimit,    \* and below this many in total (10)
    MaxTriples,   \* bound: triple ids drawn
    MaxPresigs,   \* bound: presignature ids drawn
    MaxRuns,      \* bound: runs of one triple id at one node
    MaxRequests,  \* bound: signature requests taken up
    MaxRepeats    \* bound: messages sent again although they had arrived

ASSUME RunningAssumption ==
    /\ IsFiniteSet(Nodes) /\ Cardinality(Nodes) > 1
    /\ {LowWater, PoolLimit, MaxTriples, MaxPresigs, MaxRuns} \subseteq Nat \ {0}
    /\ MaxRequests \in Nat /\ MaxRepeats \in Nat

TripleIds == 1..MaxTriples
PresigIds == 1..MaxPresigs

VARIABLES
    node,      \* the managers and bins of each node
    outbox,    \* http_client::MessageQueue of each node
    channel,   \* messages the web server passed on, not yet drained, by sender
    owner,     \* the node the hash of big_c selects, for each finished run of a triple
    born,      \* triple ids drawn so far
    pborn,     \* presignature ids drawn so far
    proposed,  \* presignatures their owner has taken for a signature
    repeats,   \* messages sent again so far
    lost       \* signatures dropped because publish failed (history)

vars == <<node, outbox, channel, owner, born, pborn, proposed, repeats, lost>>

Without(f, S) == [x \in DOMAIN f \ S |-> f[x]]
With(f, S, v) == [x \in DOMAIN f \cup S |-> IF x \in S THEN v ELSE f[x]]

\* What sequence f has at the positions I, in its order.
Select(f, I) ==
    LET rank == [i \in I |-> Cardinality({j \in I : j <= i})]
    IN [k \in 1..Cardinality(I) |-> f[CHOOSE i \in I : rank[i] = k]]

-----------------------------------------------------------------------------
(* TripleManager: triples maps an unspent id to the runs whose messages    *)
(* made it, generators an id to its protocol.                              *)

\* A protocol nobody has poked and that has heard nobody.
NewTripleProtocol(me) ==
    [me |-> me, sent |-> 0, heard |-> [r \in 1..2 |-> [q \in Nodes |-> 0]]]

HeardAll(p, r) == \A q \in Nodes \ {p.me} : p.heard[r][q] # 0

Generate(s, t) ==
    [s EXCEPT !.generators = With(@, {t}, NewTripleProtocol(s.me)), !.run[t] = @ + 1]

PotentialLen(s) ==
    Cardinality(DOMAIN s.triples) + Cardinality(DOMAIN s.generators)

Returned(s) ==
    {t \in DOMAIN s.generators :
        HeardAll(s.generators[t], 1) /\ HeardAll(s.generators[t], 2)}

\* How many of its two messages a protocol has sent after a poke.
SentBy(p) == IF HeardAll(p, 1) THEN 2 ELSE 1

RunsIn(s, t) ==
    {s.run[t]} \cup {s.generators[t].heard[r][q] : r \in 1..2, q \in Nodes \ {s.me}}

\* big_c is known, and the same for everyone, once the first party returns.
Owners(s) ==
    {own \in [DOMAIN owner \cup {<<t, s.run[t]>> : t \in Returned(s)} -> Nodes] :
        \A x \in DOMAIN owner : own[x] = owner[x]}

\* order is the order in which retain meets the generators.
Poke(s, order, own) ==
    LET done == Returned(s)
        my   == Select(order, {i \in DOMAIN order :
                   order[i] \in done /\ own[<<order[i], s.run[order[i]]>>] = s.me})
    IN [s EXCEPT !.mine = @ \o my,
                 !.triples = [t \in DOMAIN @ \cup done |->
                                IF t \in done THEN RunsIn(s, t) ELSE @[t]],
                 !.generators = [t \in DOMAIN @ \ done |->
                                   [@[t] EXCEPT !.sent = SentBy(s.generators[t])]]]

\* SendMany: each message goes to each of Q in turn.
SendMany(msgs, Q) ==
    LET to == SetToSeq(Q)
    IN [i \in 1..(Len(msgs) * Len(to)) |->
          [to |-> to[((i - 1) % Len(to)) + 1], msg |-> msgs[((i - 1) \div Len(to)) + 1]]]

\* A node also sends to itself.  cait-sith ignores what a party hears from
\* itself, and the bin of the triple exists by the time it is held, so the
\* copy of a triple message is left out.
TripleMessages(s, order) ==
    LET all == [i \in 1..(2 * Len(order)) |->
                  [kind |-> "triple", id |-> order[(i + 1) \div 2], from |-> s.me,
                   round |-> 2 - (i % 2), run |-> s.run[order[(i + 1) \div 2]]]]
        New(m) == /\ s.generators[m.id].sent < m.round
                  /\ m.round <= SentBy(s.generators[m.id])
    IN SendMany(Select(all, {i \in DOMAIN all : New(all[i])}), Nodes \ {s.me})

HasTwo(s, t0, t1) == {t0, t1} \subseteq DOMAIN s.triples

\* The shares leave the manager and belong to presignature p from now on.
Uses(s, p, T) ==
    {[presig |-> p, triple |-> t, run |-> s.run[t], runs |-> s.triples[t]] : t \in T}

\* A mutant of TakeTwo: the second triple is read and stays.
TakeTwoKeepsOne(s, p, t0, t1) ==
    [s EXCEPT !.triples = Without(@, {t0}), !.used = @ \cup Uses(s, p, {t0, t1})]

TakeTwo(s, p, t0, t1) ==
    [s EXCEPT !.triples = Without(@, {t0, t1}), !.used = @ \cup Uses(s, p, {t0, t1})]

-----------------------------------------------------------------------------
(* PresignatureManager.                                                    *)

NewPresigProtocol(t0, t1, mine) ==
    [triple0 |-> t0, triple1 |-> t1, mine |-> mine, sent |-> FALSE, heard |-> {}]

PresigPotentialLen(s) ==
    Cardinality(s.presignatures) + Cardinality(DOMAIN s.pgenerators)

WantsPresig(s) == Len(s.pmine) < LowWater /\ PresigPotentialLen(s) < PoolLimit

\* take_two_mine is called and finds two ids.  At the bound on presignatures a
\* call that would start one more is left out.
CanPopTwo(s) ==
    /\ WantsPresig(s) /\ Len(s.mine) >= 2
    /\ pborn = MaxPresigs => s.mine[1] = s.mine[2] \/ ~ HasTwo(s, s.mine[1], s.mine[2])

\* The two front ids are popped before it is known that both triples are there.
PresigGenerate(s, p) ==
    LET t0 == s.mine[1]
        t1 == s.mine[2]
        popped == [s EXCEPT !.mine = SubSeq(@, 3, Len(@))]
    IN IF ~ HasTwo(s, t0, t1) THEN popped
       ELSE IF t0 = t1 THEN [s EXCEPT !.panicked = TRUE]   \* the second remove unwraps None
       ELSE [TakeTwo(popped, p, t0, t1) EXCEPT
               !.pgenerators = With(@, {p}, NewPresigProtocol(t0, t1, TRUE))]

PresigReturned(s) ==
    {p \in DOMAIN s.pgenerators : Nodes \ {s.me} \subseteq s.pgenerators[p].heard}

PresigPoke(s, order) ==
    LET done == PresigReturned(s)
        own  == Select(order, {i \in DOMAIN order :
                   order[i] \in done /\ s.pgenerators[order[i]].mine})
    IN [s EXCEPT !.pmine = @ \o own,
                 !.presignatures = @ \cup done,
                 !.pgenerators = [p \in DOMAIN @ \ done |-> [@[p] EXCEPT !.sent = TRUE]]]

PresigMessages(s, order) ==
    LET first == Select(order, {i \in DOMAIN order : ~ s.pgenerators[order[i]].sent})
    IN SendMany([i \in 1..Len(first) |->
          [kind |-> "presig", id |-> first[i], from |-> s.me,
           triple0 |-> s.pgenerators[first[i]].triple0,
           triple1 |-> s.pgenerators[first[i]].triple1]], Nodes)

-----------------------------------------------------------------------------
(* SignatureManager.                                                       *)

NewSignProtocol(proposer) == [proposer |-> proposer, sent |-> FALSE, heard |-> {}]

\* A mutant of SignGenerate: the ids are read and not popped.
SignGeneratePeeks(s, k) ==
    LET P == {s.pmine[i] : i \in 1..k}
    IN [s EXCEPT !.presignatures = @ \ P,
                 !.sgenerators = With(@, P, NewSignProtocol(s.me))]

\* take_mine and generate for the first k of the node's requests.
SignGenerate(s, k) ==
    LET P == {s.pmine[i] : i \in 1..k}
    IN [s EXCEPT !.pmine = SubSeq(@, k + 1, Len(@)),
                 !.presignatures = @ \ P,
                 !.sgenerators = With(@, P, NewSignProtocol(s.me))]

SignReturned(s) ==
    {p \in DOMAIN s.sgenerators : Nodes \ {s.me} \subseteq s.sgenerators[p].heard}

\* Finished protocols whose signature this node has to publish.
Signed(s) == {p \in SignReturned(s) : s.sgenerators[p].proposer = s.me}

\* A mutant of SignPoke: a protocol that has to wait is not retained.
SignPokeForgets(s) ==
    [s EXCEPT !.sgenerators = <<>>, !.signatures = @ \cup Signed(s)]

\* poke pushes what finished to signatures (here they stay, as a history).
SignPoke(s) ==
    [s EXCEPT !.sgenerators = [p \in DOMAIN @ \ SignReturned(s) |-> [@[p] EXCEPT !.sent = TRUE]],
              !.signatures = @ \cup Signed(s)]

\* publish drains the signatures.  The first transaction that cannot be sent
\* ends it, and the signatures from there on are dropped.
Dropped(s) == SUBSET Signed(s)

SignMessages(s, order) ==
    LET first == Select(order, {i \in DOMAIN order : ~ s.sgenerators[order[i]].sent})
    IN SendMany([i \in 1..Len(first) |->
          [kind |-> "sign", id |-> first[i], from |-> s.me,
           proposer |-> s.sgenerators[first[i]].proposer]], Nodes)

-----------------------------------------------------------------------------
(* MpcMessageQueue and RunningState::handle.                               *)

\* The bins of an id.  Messages of different senders never meet, so a bin of
\* triple messages keeps them by sender; of the others only the sender matters,
\* and their bins are sets.
Push(s, arrived) ==
    LET msgs == UNION {ToSet(arrived[q]) : q \in Nodes}
        Ids(kind) == {m.id : m \in {x \in msgs : x.kind = kind}}
        Bin(t, q) == Select(arrived[q], {i \in DOMAIN arrived[q] :
                        arrived[q][i].kind = "triple" /\ arrived[q][i].id = t})
        Bins(f, kind) == [p \in DOMAIN f \cup Ids(kind) |->
                            (IF p \in DOMAIN f THEN f[p] ELSE {})
                              \cup {m \in msgs : m.kind = kind /\ m.id = p}]
    IN [s EXCEPT
          !.bins = [t \in DOMAIN @ \cup Ids("triple") |-> [q \in Nodes |->
                      IF t \in DOMAIN @ THEN @[t][q] \o Bin(t, q) ELSE Bin(t, q)]],
          !.pbins = Bins(@, "presig"), !.sbins = Bins(@, "sign")]

EmptyBin == [q \in Nodes |-> <<>>]

\* protocol.message: the first message of a sender for an exchange counts.
Message(p, bin) ==
    LET First(r, q) == Select(bin[q], {i \in DOMAIN bin[q] : bin[q][i].round = r})
    IN [p EXCEPT !.heard = [r \in 1..2 |-> [q \in Nodes |->
           IF q # p.me /\ @[r][q] = 0 /\ First(r, q) # <<>>
           THEN First(r, q)[1].run ELSE @[r][q]]]]

\* A mutant of Joined: an id is only looked up among the generators.
JoinedHeld(s) ==
    {t \in DOMAIN s.bins \ DOMAIN s.generators : s.run[t] < MaxRuns}

\* get_or_generate meets every id that ever had a bin, empty or not; it
\* starts a protocol for each that is neither held nor being generated.
Joined(s) ==
    {t \in DOMAIN s.bins \ (DOMAIN s.triples \cup DOMAIN s.generators) : s.run[t] < MaxRuns}

\* A mutant of HandleTriples: messages are read and not popped.
HandleTriplesPeeks(s) ==
    LET live == DOMAIN s.generators \cup Joined(s)
        Gen(t) == IF t \in DOMAIN s.generators THEN s.generators[t]
                                               ELSE NewTripleProtocol(s.me)
        Bin(t) == IF t \in DOMAIN s.bins THEN s.bins[t] ELSE EmptyBin
    IN [s EXCEPT !.run = [t \in TripleIds |-> IF t \in Joined(s) THEN @[t] + 1 ELSE @[t]],
                 !.generators = [t \in live |-> Message(Gen(t), Bin(t))]]

HandleTriples(s) ==
    LET live == DOMAIN s.generators \cup Joined(s)
        Gen(t) == IF t \in DOMAIN s.generators THEN s.generators[t]
                                               ELSE NewTripleProtocol(s.me)
        Bin(t) == IF t \in DOMAIN s.bins THEN s.bins[t] ELSE EmptyBin
    IN [s EXCEPT !.run = [t \in TripleIds |-> IF t \in Joined(s) THEN @[t] + 1 ELSE @[t]],
                 !.generators = [t \in live |-> Message(Gen(t), Bin(t))],
                 !.bins = [t \in DOMAIN @ |-> IF t \in live THEN EmptyBin ELSE @[t]]]

\* A mutant of Leftover: what cannot be used now is dropped.
LeftoverDropped(bins, used) == [i \in DOMAIN bins |-> {}]

\* The messages a loop over the bins leaves: those of ids it had no use for.
Leftover(bins, used) == [i \in DOMAIN bins |-> IF i \in used THEN {} ELSE bins[i]]

TriplesOf(s, p) == UNION {{m.triple0, m.triple1} : m \in s.pbins[p]}

\* Presignatures a message lets the node join: unknown, with both triples there.
Joinable(s) ==
    {p \in DOMAIN s.pbins \ (s.presignatures \cup DOMAIN s.pgenerators) :
        s.pbins[p] # {} /\ TriplesOf(s, p) \subseteq DOMAIN s.triples}

\* The bins are met in any order: those that join share no triple, and every
\* one left out lacks a triple that one of them took.
JoinSets(s) ==
    {J \in SUBSET Joinable(s) :
        /\ \A p, q \in J : p = q \/ TriplesOf(s, p) \cap TriplesOf(s, q) = {}
        /\ \A p \in Joinable(s) \ J : \E q \in J : TriplesOf(s, p) \cap TriplesOf(s, q) # {}}

\* Messages of a generated presignature are dropped, those of one that cannot
\* be joined stay in their bin.
HandlePresigs(s, J) ==
    LET live == DOMAIN s.pgenerators \cup J
        Gen(p) == IF p \in J
                  THEN LET m == CHOOSE m \in s.pbins[p] : TRUE
                       IN NewPresigProtocol(m.triple0, m.triple1, FALSE)
                  ELSE s.pgenerators[p]
        From(p) == IF p \in DOMAIN s.pbins THEN {m.from : m \in s.pbins[p]} ELSE {}
    IN [s EXCEPT
          !.triples = Without(@, UNION {TriplesOf(s, p) : p \in J}),
          !.used = @ \cup UNION {Uses(s, p, TriplesOf(s, p)) : p \in J},
          !.pgenerators = [p \in live |-> [Gen(p) EXCEPT !.heard = @ \cup (From(p) \ {s.me})]],
          !.pbins = Leftover(@, s.presignatures \cup live)]

\* Signatures a message lets the node join: not under way, presignature there.
SignJoinable(s) ==
    {p \in DOMAIN s.sbins \ DOMAIN s.sgenerators : s.sbins[p] # {} /\ p \in s.presignatures}

HandleSigns(s) ==
    LET live == DOMAIN s.sgenerators \cup SignJoinable(s)
        Gen(p) == IF p \in DOMAIN s.sgenerators THEN s.sgenerators[p]
                  ELSE NewSignProtocol((CHOOSE m \in s.sbins[p] : TRUE).proposer)
        From(p) == IF p \in DOMAIN s.sbins THEN {m.from : m \in s.sbins[p]} ELSE {}
    IN [s EXCEPT
          !.presignatures = @ \ SignJoinable(s),
          !.sgenerators = [p \in live |-> [Gen(p) EXCEPT !.heard = @ \cup (From(p) \ {s.me})]],
          !.sbins = Leftover(@, live)]

-----------------------------------------------------------------------------
(* The loop of one node and the web server that fills its channel.         *)

NewManagers(n) ==
    [me |-> n, triples |-> <<>>, generators |-> <<>>, mine |-> <<>>, bins |-> <<>>,
     presignatures |-> {}, pgenerators |-> <<>>, pmine |-> <<>>, pbins |-> <<>>,
     sgenerators |-> <<>>, sbins |-> <<>>, signatures |-> {},
     run |-> [t \in TripleIds |-> 0], used |-> {}, panicked |-> FALSE]

Init ==
    /\ node = [n \in Nodes |-> NewManagers(n)]
    /\ outbox = [n \in Nodes |-> <<>>]
    /\ channel = [n \in Nodes |-> EmptyBin]
    /\ owner = <<>>
    /\ born = 0 /\ pborn = 0
    /\ proposed = {}
    /\ repeats = 0 /\ lost = {}

WantsTriple(s) ==
    Len(s.mine) < LowWater /\ PotentialLen(s) < PoolLimit /\ born < MaxTriples

\* The loop that pairs own presignatures with own requests stops when one or
\* the other is used up.
Served(s) == {k \in 0..Len(s.pmine) : Cardinality(proposed) + k <= MaxRequests}

\* One turn of the loop: drain the channel, progress, handle.  The orders are
\* those in which HashMap::retain meets the generators.  When publish fails,
\* progress does, and the loop starts over without handle.
Iterate(n) ==
    ~ node[n].panicked /\
    \E s0 \in {Push(node[n], channel[n])} :
    \E s1 \in {IF WantsTriple(s0) THEN Generate(s0, born + 1) ELSE s0} :
    \E o1 \in SetToSeqs(DOMAIN s1.generators), own \in Owners(s1) :
    \E s2 \in {Poke(s1, o1, own)} :
    \E s3 \in {IF CanPopTwo(s2) THEN PresigGenerate(s2, pborn + 1) ELSE s2} :
    \E o2 \in SetToSeqs(DOMAIN s3.pgenerators) :
    \E s4 \in {PresigPoke(s3, o2)} : \E k \in Served(s4) :
    \E s5 \in {SignGenerate(s4, k)} : \E o3 \in SetToSeqs(DOMAIN s5.sgenerators) :
    \E s6 \in {HandleTriples(SignPoke(s5))} : \E J \in JoinSets(s6) :
    \E drop \in Dropped(s5) :
    \E s7 \in {IF drop = {} THEN HandleSigns(HandlePresigs(s6, J)) ELSE SignPoke(s5)} :
        /\ node' = [node EXCEPT ![n] = IF s3.panicked THEN s3 ELSE s7]
        /\ channel' = [channel EXCEPT ![n] = EmptyBin]
        /\ outbox' = [outbox EXCEPT ![n] =
              IF s3.panicked THEN <<>>
              ELSE @ \o TripleMessages(s1, o1) \o PresigMessages(s3, o2)
                     \o SignMessages(s5, o3)]
        /\ born' = IF WantsTriple(s0) THEN born + 1 ELSE born
        /\ pborn' = IF pborn + 1 \in DOMAIN s3.pgenerators THEN pborn + 1 ELSE pborn
        /\ proposed' = IF s3.panicked THEN proposed
                       ELSE proposed \cup {s4.pmine[i] : i \in 1..k}
        /\ owner' = own
        /\ lost' = IF s3.panicked THEN lost ELSE lost \cup drop
        /\ UNCHANGED repeats

\* send_encrypted puts the front message into the receiver's channel, whatever
\* answer gets back.
SendEncrypted(n) ==
    LET to == Head(outbox[n]).to
    IN channel' = [channel EXCEPT ![to][n] = Append(@, Head(outbox[n]).msg)]

\* MessageQueue::send_encrypted: only the front message is ever on its way, and
\* it is sent again, with the next turn or by Retry, until an answer comes.  When
\* it is the answer that got lost, the message arrives once more.
Arrive(n) ==
    /\ outbox[n] # <<>> /\ ~ node[Head(outbox[n]).to].panicked
    /\ SendEncrypted(n)
    /\ \/ outbox' = [outbox EXCEPT ![n] = Tail(@)] /\ UNCHANGED repeats
       \/ repeats < MaxRepeats /\ repeats' = repeats + 1 /\ UNCHANGED outbox
    /\ UNCHANGED <<node, owner, born, pborn, proposed, lost>>

Next == \E n \in Nodes : Iterate(n) \/ Arrive(n)

Spec == Init /\ [][Next]_vars

\* The next turn of the node is not idle: something arrived or was left in a
\* bin, or something can be started, poked, finished or joined.
Busy(n) ==
    LET s == node[n]
        Waiting(bins, live, empty) == \E i \in DOMAIN bins \cap live : bins[i] # empty
    IN /\ ~ s.panicked
       /\ \/ channel[n] # EmptyBin \/ WantsTriple(s) \/ CanPopTwo(s)
          \/ \E t \in DOMAIN s.generators :
                t \in Returned(s) \/ s.generators[t].sent < SentBy(s.generators[t])
          \/ \E p \in DOMAIN s.pgenerators : p \in PresigReturned(s) \/ ~ s.pgenerators[p].sent
          \/ \E p \in DOMAIN s.sgenerators : p \in SignReturned(s) \/ ~ s.sgenerators[p].sent
          \/ Waiting(s.bins, DOMAIN s.generators, EmptyBin)
          \/ Waiting(s.pbins, s.presignatures \cup DOMAIN s.pgenerators, {})
          \/ Waiting(s.sbins, DOMAIN s.sgenerators, {})
          \/ Joined(s) \cup Joinable(s) \cup SignJoinable(s) # {}

\* Queues are sent again until they are received.  The loop of a node goes on: a
\* node that again and again has something to do takes a turn again and again.
\* This is WF_vars(Iterate(n)), with its condition spelled out and the turns told
\* by what they alone do: the channel is drained.
FairSpec ==
    /\ Spec
    /\ \A n \in Nodes :
        /\ WF_vars(Arrive(n))
        /\ []<>(~ Busy(n)) \/ []<><<channel'[n] = EmptyBin>>_<<node[n], channel[n]>>

-----------------------------------------------------------------------------
(* Properties.                                                             *)

PresigMessage == [kind : {"presig"}, id : PresigIds, from : Nodes,
                  triple0 : TripleIds, triple1 : TripleIds]
TripleMessage == [kind : {"triple"}, id : TripleIds, from : Nodes,
                  round : 1..2, run : 1..MaxRuns]
SignMessage == [kind : {"sign"}, id : PresigIds, from : Nodes, proposer : Nodes]
MpcMessage == PresigMessage \cup TripleMessage \cup SignMessage

\* The managers, bins and queues hold what their types say.
TypeOK ==
    /\ born \in 0..MaxTriples /\ pborn \in 0..MaxPresigs
    /\ proposed \subseteq 1..pborn
    /\ \A n \in Nodes :
        LET s == node[n] IN
        /\ DOMAIN s.triples \cup DOMAIN s.generators \cup DOMAIN s.bins \subseteq 1..born
        /\ s.presignatures \cup DOMAIN s.pgenerators \cup DOMAIN s.pbins \subseteq 1..pborn
        /\ s.presignatures \cap DOMAIN s.pgenerators = {}
        /\ DOMAIN s.triples \cap DOMAIN s.generators = {}
        /\ ToSet(s.mine) \subseteq 1..born
        /\ \A q \in Nodes : ToSet(channel[n][q]) \subseteq {m \in MpcMessage : m.from = q}
        /\ \A i \in 1..Len(outbox[n]) :
              outbox[n][i].to \in Nodes /\ outbox[n][i].msg \in MpcMessage

\* Although the bins outlive a triple and get_or_generate runs a spent id again,
\* no unspent triple was ever made from messages of two runs of its id.  (A
\* message of the first run that is sent again can end up in the second.)
OneRun ==
    repeats = 0 =>
        \A n \in Nodes : \A t \in DOMAIN node[n].triples : node[n].triples[t] = {node[n].run[t]}

\* "It is very important to NOT reuse the same triple twice for two different
\* protocols" (take_two, take_two_mine): at one node the share of a run of a
\* triple serves one presignature and is gone from the manager then.
ShareSpentOnce == \A n \in Nodes : \A u \in node[n].used :
    /\ \A v \in node[n].used :
         u.triple = v.triple /\ u.run = v.run => u.presig = v.presig
    /\ u.triple \in DOMAIN node[n].triples => u.run # node[n].run[u.triple]

\* take_mine unwraps: what the list of own presignatures names is still there,
\* whatever signature messages have made the node take.
MinePresent == \A n \in Nodes : ToSet(node[n].pmine) \subseteq node[n].presignatures

TripleMade(n, t) ==
    t \in DOMAIN node[n].triples \/ \E u \in node[n].used : u.triple = t

\* A late message made the node join a presignature again that it had spent.
JoinedAgain(n, p) ==
    \E u, v \in node[n].used : u.presig = p /\ v.presig = p /\ u.triple = v.triple /\ u # v

PresigMade(n, p) ==
    /\ \E u \in node[n].used : u.presig = p
    /\ p \notin DOMAIN node[n].pgenerators \/ JoinedAgain(n, p)

\* "we are guaranteed to never try to use the same triple as any other node"
\* (RunningState::progress): two nodes that use shares of one run of a triple
\* use them for the same presignature.
NoContention == \A m, n \in Nodes : \A u \in node[m].used, v \in node[n].used :
    u.triple = v.triple /\ u.runs = v.runs => u.presig = v.presig

\* What a second run of an id may end in: nodes that use one run of a triple for
\* two presignatures, or the unwrap in take_two.
Spoilt == ~ NoContention \/ \E n \in Nodes : node[n].panicked

\* Every triple a node starts is made by all of them, and so is every
\* presignature, however slow a node is to have the two triples it needs, for
\* however long a message at the front of a queue holds up those behind it, and
\* although spent ids are run again, unless two nodes contend for the triples of
\* a second run or one panics over them.
EveryoneFinishes ==
    []<>(Spoilt \/ \A n \in Nodes : /\ \A t \in 1..born : TripleMade(n, t)
                                    /\ \A p \in 1..pborn : PresigMade(n, p))

Published(p) == p \notin lost /\ \E n \in Nodes : p \in node[n].signatures

\* Every request that was given a presignature is answered, or its signature is
\* lost because the transaction could not be sent: the others take their part of
\* the presignature when the first message names it, and the proposer hears them
\* and publishes.  The same two ends of a second run are excepted.
ProposedIsPublished ==
    []<>(Spoilt \/ \A p \in proposed : Published(p) \/ p \in lost)

=============================================================================
