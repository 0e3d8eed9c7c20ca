---------------------------- MODULE FareHistory ----------------------------
(***************************************************************************)
(* What the snapshot store promises (pipeline/store/snapshot_store.py:1-10 *)
(* and specs/L0-foundation.md section 6): an append-only history of parts. *)
(* A part is a file name together with the rows in it.  A name is used     *)
(* once and its rows never change; a write is acknowledged only over parts *)
(* already in the history; a read returns the rows of some set of parts    *)
(* that includes every part published before the read began, or fails.     *)
(***************************************************************************)
EXTENDS Naturals, Sequences

CONSTANTS
    Names,        \* the part file names the store can ever use
    Rows,         \* the observations a part can hold
    Readers,      \* the read() calls running concurrently
    Base          \* the rows of the fixture dataset, read before the parts

VARIABLES
    parts,        \* the parts published so far: <<name, rows>>
    acked,        \* the parts a returned WriteResult vouches for
    floor,        \* reader -> the parts published when its read began
    answers       \* reader -> what its reads have returned, in order

vars == <<parts, acked, floor, answers>>

RowsOf(S) == Base \cup UNION {part[2] : part \in S}

Init ==
    /\ parts = {}
    /\ acked = {}
    /\ floor = [r \in Readers |-> {}]
    /\ answers = [r \in Readers |-> <<>>]

(* A part appears under a name nobody has used. *)
Publish ==
    /\ \E n \in Names, rows \in SUBSET Rows :
         /\ \A part \in parts : part[1] # n
         /\ parts' = parts \cup {<<n, rows>>}
    /\ UNCHANGED <<acked, floor, answers>>

(* A write returns: every part it reports is in the history. *)
Acknowledge ==
    /\ \E S \in SUBSET parts : acked' = acked \cup S
    /\ UNCHANGED <<parts, floor, answers>>

Begin(r) ==
    /\ floor' = [floor EXCEPT ![r] = parts]
    /\ UNCHANGED <<parts, acked, answers>>

(* A read returns whole parts only, at least those it found published. *)
Answer(r) ==
    /\ \E S \in SUBSET parts :
         /\ floor[r] \subseteq S
         /\ answers' = [answers EXCEPT ![r] =
                            Append(@, [ok |-> TRUE, rows |-> RowsOf(S)])]
    /\ UNCHANGED <<parts, acked, floor>>

Fail(r) ==
    /\ answers' = [answers EXCEPT ![r] = Append(@, [ok |-> FALSE, rows |-> {}])]
    /\ UNCHANGED <<parts, acked, floor>>

Next ==
    \/ Publish
    \/ Acknowledge
    \/ \E r \in Readers : Begin(r) \/ Answer(r) \/ Fail(r)

Spec == Init /\ [][Next]_vars

=============================================================================
