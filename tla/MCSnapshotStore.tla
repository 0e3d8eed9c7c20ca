-------------------------- MODULE MCSnapshotStore --------------------------
(***************************************************************************)
(* Small instances of the snapshot store for TLC.                          *)
(***************************************************************************)
EXTENDS SnapshotStore, TLC

CONSTANTS w1, w2, r1

(* Two partitions; ids 1 and 2 live in the first, id 3 in the second. *)
MCPartOf == 1 :> 1 @@ 2 :> 1 @@ 3 :> 2

Row(id, run, ok, v) == [id |-> id, run |-> run, ok |-> ok, v |-> v]

(* A batch over both partitions with a duplicated id, one with a bad row and
   one that meets the first one's partition again. *)
BatchesOfRun(run) ==
    { << Row(1, run, TRUE, 0), Row(3, run, TRUE, 0), Row(1, run, TRUE, 1) >>,
      << Row(2, run, TRUE, 0), Row(3, run, FALSE, 1) >>,
      << Row(2, run, TRUE, 0) >> }

OneGroup(run) == { << >>, << Row(1, run, TRUE, 0), Row(1, run, TRUE, 1) >> }

AllRows(batches) ==
    UNION {UNION {BatchRows(batch) : batch \in batches[w]} : w \in DOMAIN batches}

(* Each process has its own run. *)
PrivateBatches ==
    [w \in Writers |-> IF w = w1 THEN BatchesOfRun(1) ELSE OneGroup(2)]
PrivateRows == AllRows(PrivateBatches) \cup { Row(2, 2, TRUE, 5) }
PrivateFixtures == { Row(2, 2, TRUE, 5) }

(* Two processes - or two threads - of one run. *)
SharedBatches ==
    [w \in Writers |-> IF w = w1 THEN OneGroup(1) ELSE { << Row(2, 1, TRUE, 0) >> }]
SharedRows == AllRows(SharedBatches)

=============================================================================
