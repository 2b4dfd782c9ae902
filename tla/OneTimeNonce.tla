---------------------------- MODULE OneTimeNonce ----------------------------
(***************************************************************************)
(* What aggregate signing asks of the ephemeral keys ("nonces") it signs    *)
(* with: each is committed to once, opened for one session, and used for at *)
(* most one signature, in a session that does not contradict the one it was *)
(* opened for.  Anything may be burnt on the way, and what is burnt never   *)
(* comes back.  A session is a list of the nonces that sign together.       *)
(***************************************************************************)
CONSTANTS Nonces,     \* the ephemeral keys the nodes may draw
          Sessions    \* the lists of nonces that may sign together

VARIABLES status,     \* of every nonce
          sessions    \* the sessions every nonce is open or used for: one at most

nonceVars == <<status, sessions>>

Init == status = [x \in Nonces |-> "fresh"] /\ sessions = [x \in Nonces |-> {}]

Commit(x) ==
    /\ status[x] = "fresh"
    /\ status' = [status EXCEPT ![x] = "committed"]
    /\ UNCHANGED sessions

\* Nonce x is in session s.
In(x, s) == \E i \in DOMAIN s : s[i] = x

Open(x) ==
    /\ status[x] = "committed"
    /\ status' = [status EXCEPT ![x] = "open"]
    /\ \E s \in Sessions : In(x, s) /\ sessions' = [sessions EXCEPT ![x] = {s}]

Use(x) ==
    /\ status[x] = "open"
    /\ status' = [status EXCEPT ![x] = "used"]
    /\ \E s \in Sessions :
          /\ In(x, s)
          /\ \A o \in sessions[x] : \A i \in DOMAIN o \cap DOMAIN s : s[i] = o[i]
          /\ sessions' = [sessions EXCEPT ![x] = {s}]

Burn(X) ==
    /\ \A x \in X : status[x] \in {"committed", "open"}
    /\ status' = [x \in Nonces |-> IF x \in X THEN "burnt" ELSE status[x]]
    /\ sessions' = [x \in Nonces |-> IF x \in X THEN {} ELSE sessions[x]]

Next == \/ \E x \in Nonces : Commit(x) \/ Open(x) \/ Use(x)
        \/ \E X \in SUBSET Nonces : Burn(X)

Spec == Init /\ [][Next]_nonceVars

=============================================================================
