-------------------------------- MODULE Roll --------------------------------
(***************************************************************************)
(* The member roll (packages/seals/src): an office appends signed events   *)
(* and seals checkpoints over the head; a verifier, offline, reads the     *)
(* rows into members and refuses a roll it cannot account for.             *)
(*                                                                         *)
(* The writer checks an event's form, so any signed event is appended; a   *)
(* row the verifier refuses changes no member and leaves the roll refused. *)
(* A head digest is the rows it covers: two lists of rows of one digest    *)
(* are the same list.  Rows are appended in their chain's place, so its    *)
(* sequence and link checks always pass here.  A signature is that of the  *)
(* key named; classes, and fields missing from a row, are left out.        *)
(***************************************************************************)
EXTENDS Naturals, SequencesExt, FiniteSets

CONSTANTS
  Keys,          \* the Members' keys
  Authorities,   \* the keys of the manifest
  Threshold,     \* manifest.threshold.k
  EpochEvents,   \* genesis.epochLength.events
  Signings,      \* bound: the signers an event of the authority may carry
  MaxEntries, MaxEpochs,  \* bounds
  None

ASSUME ThresholdIsPositive == Threshold \in Nat \ {0} /\ EpochEvents \in Nat \ {0}
ASSUME NoneIsNoKey == None \notin Keys
ASSUME SigningsAreOfAuthorities == Signings \subseteq Seq(Authorities)

VARIABLES
  entries,      \* the roll's rows, in order
  checkpoints   \* the epoch instruments

vars == <<entries, checkpoints>>

\* proven: signed by the Member's own key, or for a rotation the predecessor's.
Row(kind, key, predecessor, signers, proven) ==
  [kind |-> kind, key |-> key, predecessor |-> predecessor, signedBy |-> signers, proven |-> proven]
Rows ==
  {Row("admission", k, None, s, p) : k \in Keys, s \in Signings, p \in BOOLEAN}
    \cup {Row("rotation", k, from, <<>>, p) : k \in Keys, from \in Keys, p \in BOOLEAN}
    \cup {Row("revocation", k, None, s, FALSE) : k \in Keys, s \in Signings}

----------------------------------------------------------------------------
(* verifyRoll: the rows *)

Nobody == [lineage |-> <<>>, revoked |-> {}]

Holds(st, key) == {m \in DOMAIN st.lineage : key \in ToSet(st.lineage[m])}

\* A mutant: a key its Member no longer signs with may be bound again.
SeenInUse(st, key) == \E m \in DOMAIN st.lineage : Last(st.lineage[m]) = key

\* digestSeen.
Seen(st, key) == Holds(st, key) # {}

MemberOf(st, key) == CHOOSE m \in Holds(st, key) : TRUE

\* countAuthorityQuorum: distinct signers, of the manifest.
Quorum(signers) == Cardinality(ToSet(signers) \cap Authorities) >= Threshold

Accepted(st, row) ==
  \/ row.kind = "admission" /\ ~Seen(st, row.key) /\ Quorum(row.signedBy) /\ row.proven
  \/ /\ row.kind = "rotation" /\ Holds(st, row.predecessor) # {}
     /\ LET m == MemberOf(st, row.predecessor)
        IN  m \notin st.revoked /\ Last(st.lineage[m]) = row.predecessor
     /\ ~Seen(st, row.key) /\ row.proven
  \/ /\ row.kind = "revocation" /\ Holds(st, row.key) # {}
     /\ MemberOf(st, row.key) \notin st.revoked /\ Quorum(row.signedBy)

\* What an accepted row does to the members.
Effect(st, row) ==
  CASE row.kind = "admission" ->
         [st EXCEPT !.lineage = [m \in DOMAIN @ \cup {row.key} |->
                                   IF m = row.key THEN <<row.key>> ELSE @[m]]]
    [] row.kind = "rotation" ->
         [st EXCEPT !.lineage[MemberOf(st, row.predecessor)] = Append(@, row.key)]
    [] row.kind = "revocation" ->
         [st EXCEPT !.revoked = @ \cup {MemberOf(st, row.key)}]

Read(st, row) == IF Accepted(st, row) THEN Effect(st, row) ELSE st
Standing(rows) ==
  LET after[n \in 0..Len(rows)] == IF n = 0 THEN Nobody ELSE Read(after[n - 1], rows[n])
  IN  after[Len(rows)]
RowsVerify(rows) ==
  \A i \in DOMAIN rows : Accepted(Standing(SubSeq(rows, 1, i - 1)), rows[i])

----------------------------------------------------------------------------
(* verifyRoll: the checkpoints. A head is the rows through it. *)

Through(cps, i) == IF i = 0 THEN 0 ELSE cps[i].through

\* A mutant: the head is looked for among the rows and not at its own place.
Somewhere(rows, cp) == \E n \in 0..Len(rows) : Len(cp.head) = n

\* The head is reached, and where the instrument says.
Reached(rows, cp) == cp.through <= Len(rows) /\ SubSeq(rows, 1, cp.through) = cp.head

\* Each epoch consecutive, past the last, within the genesis cadence, sealed, and reached.
CheckpointsVerify(rows, cps) ==
  \A i \in DOMAIN cps :
    /\ cps[i].epoch = i - 1
    /\ cps[i].through > Through(cps, i - 1)
    /\ cps[i].through - Through(cps, i - 1) <= EpochEvents
    /\ Quorum(cps[i].signedBy)
    /\ Reached(rows, cps[i])

Verifies(rows, cps) == CheckpointsVerify(rows, cps) /\ RowsVerify(rows)

----------------------------------------------------------------------------
Init == entries = <<>> /\ checkpoints = <<>>

\* appendRollEvent
AppendRow(row) == /\ Len(entries) < MaxEntries
                  /\ entries' = Append(entries, row)
                  /\ UNCHANGED checkpoints

\* closeEpoch, for the next epoch: below the threshold it throws, and emits nothing.
CloseEpoch(signers) ==
  /\ Quorum(signers) /\ Len(checkpoints) < MaxEpochs
  /\ checkpoints' = Append(checkpoints,
        [epoch |-> Len(checkpoints), through |-> Len(entries), head |-> entries, signedBy |-> signers])
  /\ UNCHANGED entries

Next == \/ \E row \in Rows : AppendRow(row)
        \/ \E s \in Signings : CloseEpoch(s)

Spec == Init /\ [][Next]_vars

----------------------------------------------------------------------------
(* Properties *)

\* Whatever is appended, the members the verifier reads move as a membership does.
Members == INSTANCE Membership WITH members <- Standing(entries)
ImplementsMembership == Members!Spec

\* I-2, one layer up: a roll that verifies under the checkpoints the office sealed
\* carries the office's rows through the last of them, whatever follows there.
AnchoredRowsAreTheOffices ==
  LET anchored == SubSeq(entries, 1, Through(checkpoints, Len(checkpoints)))
      others == {SubSeq(entries, 1, n) \o more :
                   n \in 0..Len(entries), more \in {<<>>} \cup {<<row>> : row \in Rows}}
  IN  anchored # <<>> => \A rows \in others : Verifies(rows, checkpoints) => IsPrefix(anchored, rows)
=============================================================================
