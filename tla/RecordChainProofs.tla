-------------------------- MODULE RecordChainProofs --------------------------
(***************************************************************************)
(* The record is evidence, for any acts, lengths, lives, failures and      *)
(* faults.  The inductive invariant says that the links below the log's    *)
(* length are the log's own histories, and that once a batch's links are   *)
(* committed they are the histories of the log the batch is about to make, *)
(* so that whatever prefix of it a death leaves is linked.  A second one   *)
(* says where each act is, on the log or held by the writer, so that none  *)
(* is lost or misplaced.                                                   *)
(***************************************************************************)
EXTENDS RecordChain, SequenceTheorems, TLAPS

(* Every act of h has the link that commits to the acts up to it. *)
Linked(h) ==
  \A n \in 0 .. Len(h) - 1 : n \in DOMAIN links /\ links[n] = SubSeq(h, 1, n + 1)

BatchActs == [i \in 1 .. Len(op.batch) |-> op.batch[i].act]

(* The shapes the proof needs; the bounds of RecordTypeOK are left out. *)
Shapes ==
  /\ log \in History /\ synced \in Nat /\ synced <= Len(log)
  /\ torn \in BOOLEAN
  /\ acts \in History
  /\ buffered \in Seq(Event)
  /\ op \in [pc : {"idle", "store", "log", "anchor", "finish"},
             kind : {"none", "append", "drain", "flush", "close"}, batch : Seq(Event)]
  /\ cursor \in Nat \cup {None}
  /\ reader = None \/ reader \in [from : Nat, events : History]

(* The handle's idea of the log's length is the log's length. *)
CursorTrue ==
  /\ cursor # None => cursor = Len(log)
  /\ op.pc = "log" => cursor # None

(* A read holds a stretch of the log that has only grown since. *)
ReaderHolds ==
  reader # None =>
    /\ reader.from + Len(reader.events) <= Len(log)
    /\ reader.events = SubSeq(log, reader.from + 1, reader.from + Len(reader.events))

LinksTrue ==
  "torn" \notin met =>
    /\ torn = FALSE
    /\ Linked(log)
    /\ op.pc = "log" => Linked(log \o BatchActs)

RecInv ==
  /\ Shapes /\ CursorTrue /\ ReaderHolds /\ LinksTrue
  /\ op.pc \in {"store", "log"} => op.batch # <<>> /\ phase # "closed"

-----------------------------------------------------------------------------
(* Histories *)

(* The first acts of a longer history. *)
LEMMA Prefixes ==
  ASSUME NEW s \in History, NEW n \in 0 .. Len(s)
  PROVE  /\ SubSeq(s, 1, n) \in History
         /\ Len(SubSeq(s, 1, n)) = n
         /\ \A i \in 1 .. n : SubSeq(s, 1, n)[i] = s[i]
<1>1. \A i \in 1 .. n : s[i] \in Acts
  BY ElementOfSeq DEF History
<1> QED
  BY <1>1, SubSeqProperties, LenProperties DEF History

(* A prefix of a prefix. *)
LEMMA PrefixOfPrefix ==
  ASSUME NEW s \in History, NEW n \in 0 .. Len(s), NEW m \in 0 .. n
  PROVE  SubSeq(SubSeq(s, 1, n), 1, m) = SubSeq(s, 1, m)
<1> DEFINE t == SubSeq(s, 1, n)
<1>1. t \in History /\ Len(t) = n /\ \A i \in 1 .. n : t[i] = s[i]
  BY Prefixes
<1>2. m \in 0 .. Len(s) /\ m \in 0 .. Len(t) /\ n \in Nat /\ m \in Nat
  BY <1>1, LenProperties DEF History
<1> HIDE DEF t
<1>3. /\ SubSeq(t, 1, m) \in History /\ Len(SubSeq(t, 1, m)) = m
      /\ \A i \in 1 .. m : SubSeq(t, 1, m)[i] = t[i]
  BY <1>1, <1>2, Prefixes
<1>4. /\ SubSeq(s, 1, m) \in History /\ Len(SubSeq(s, 1, m)) = m
      /\ \A i \in 1 .. m : SubSeq(s, 1, m)[i] = s[i]
  BY <1>2, Prefixes
<1>5. \A i \in 1 .. m : SubSeq(t, 1, m)[i] = SubSeq(s, 1, m)[i]
  BY <1>1, <1>2, <1>3, <1>4
<1>6. SubSeq(t, 1, m) = SubSeq(s, 1, m)
  BY <1>3, <1>4, <1>5, SeqEqual DEF History
<1> QED
  BY <1>6 DEF t

(* A history that continues another agrees with it below, and is it and the
   first acts of what follows above. *)
LEMMA Continued ==
  ASSUME NEW s \in History, NEW t \in History
  PROVE  /\ s \o t \in History /\ Len(s \o t) = Len(s) + Len(t)
         /\ \A n \in 0 .. Len(s) : SubSeq(s \o t, 1, n) = SubSeq(s, 1, n)
         /\ \A n \in 0 .. Len(t) : SubSeq(s \o t, 1, Len(s) + n) = s \o SubSeq(t, 1, n)
<1> DEFINE u == s \o t
<1>1. /\ u \in History /\ Len(u) = Len(s) + Len(t)
      /\ \A i \in 1 .. Len(s) + Len(t) : u[i] = IF i <= Len(s) THEN s[i] ELSE t[i - Len(s)]
  BY ConcatProperties DEF History
<1>2. Len(s) \in Nat /\ Len(t) \in Nat
  BY LenProperties DEF History
<1> HIDE DEF u
<1>3. ASSUME NEW n \in 0 .. Len(s)
      PROVE  SubSeq(u, 1, n) = SubSeq(s, 1, n)
  <2>1. n \in 0 .. Len(u)
    BY <1>1, <1>2
  <2>2. /\ SubSeq(u, 1, n) \in History /\ Len(SubSeq(u, 1, n)) = n
        /\ \A i \in 1 .. n : SubSeq(u, 1, n)[i] = u[i]
    BY <1>1, <2>1, Prefixes
  <2>3. /\ SubSeq(s, 1, n) \in History /\ Len(SubSeq(s, 1, n)) = n
        /\ \A i \in 1 .. n : SubSeq(s, 1, n)[i] = s[i]
    BY Prefixes
  <2>4. \A i \in 1 .. n : SubSeq(u, 1, n)[i] = SubSeq(s, 1, n)[i]
    BY <1>1, <1>2, <2>2, <2>3
  <2> QED
    BY <2>2, <2>3, <2>4, SeqEqual DEF History
<1>4. ASSUME NEW n \in 0 .. Len(t)
      PROVE  SubSeq(u, 1, Len(s) + n) = s \o SubSeq(t, 1, n)
  <2>1. Len(s) + n \in 0 .. Len(u)
    BY <1>1, <1>2
  <2>2. /\ SubSeq(u, 1, Len(s) + n) \in History /\ Len(SubSeq(u, 1, Len(s) + n)) = Len(s) + n
        /\ \A i \in 1 .. Len(s) + n : SubSeq(u, 1, Len(s) + n)[i] = u[i]
    BY <1>1, <2>1, Prefixes
  <2> DEFINE p == SubSeq(t, 1, n)
  <2>3. p \in History /\ Len(p) = n /\ \A i \in 1 .. n : p[i] = t[i]
    BY Prefixes
  <2> HIDE DEF p
  <2>4. /\ s \o p \in History /\ Len(s \o p) = Len(s) + n
        /\ \A i \in 1 .. Len(s) + n : (s \o p)[i] = IF i <= Len(s) THEN s[i] ELSE p[i - Len(s)]
    BY <2>3, ConcatProperties DEF History
  <2>5. \A i \in 1 .. Len(s) + n : SubSeq(u, 1, Len(s) + n)[i] = (s \o p)[i]
    <3> SUFFICES ASSUME NEW i \in 1 .. Len(s) + n
                 PROVE  SubSeq(u, 1, Len(s) + n)[i] = (s \o p)[i]
      OBVIOUS
    <3>1. i \in 1 .. Len(s) + Len(t) /\ n \in Nat
      BY <1>2
    <3>2. SubSeq(u, 1, Len(s) + n)[i] = IF i <= Len(s) THEN s[i] ELSE t[i - Len(s)]
      BY <1>1, <2>2, <3>1
    <3>3. i > Len(s) => i - Len(s) \in 1 .. n
      BY <1>2, <3>1
    <3>4. i > Len(s) => p[i - Len(s)] = t[i - Len(s)]
      BY <2>3, <3>3
    <3> QED
      BY <1>2, <2>4, <3>2, <3>4
  <2>6. SubSeq(u, 1, Len(s) + n) = s \o p
    BY <2>2, <2>4, <2>5, SeqEqual DEF History
  <2> QED
    BY <2>6 DEF p
<1> QED
  BY <1>1, <1>3, <1>4 DEF u

(* A log that only grew has the stretches it had. *)
LEMMA SameStretch ==
  ASSUME NEW s \in History, NEW t \in History, NEW f \in Nat, NEW k \in 0 .. Len(s),
         Len(s) <= Len(t), SubSeq(t, 1, Len(s)) = SubSeq(s, 1, Len(s))
  PROVE  SubSeq(t, f + 1, k) = SubSeq(s, f + 1, k)
<1>1. Len(s) \in Nat /\ Len(t) \in Nat /\ s \in Seq(Acts) /\ t \in Seq(Acts)
  BY LenProperties DEF History
<1>2. \A i \in 1 .. Len(s) : t[i] = s[i]
  BY <1>1, Prefixes
<1>3. CASE k < f + 1
  BY <1>1, <1>3, SubSeqEmpty
<1>4. CASE f + 1 <= k
  <2>1. /\ f + 1 \in 1 .. Len(s) /\ k \in 1 .. Len(s) /\ f + 1 \in 1 .. Len(t) /\ k \in 1 .. Len(t)
        /\ 1 <= f + 1 /\ k <= Len(s) /\ k <= Len(t)
    BY <1>1, <1>4
  <2>2. \A i \in f + 1 .. k : t[i] \in Acts /\ s[i] \in Acts /\ t[i] = s[i]
    BY <1>1, <1>2, <2>1, ElementOfSeq
  <2>3. /\ SubSeq(s, f + 1, k) \in Seq(Acts) /\ SubSeq(t, f + 1, k) \in Seq(Acts)
        /\ Len(SubSeq(s, f + 1, k)) = k - f /\ Len(SubSeq(t, f + 1, k)) = k - f
    BY <1>1, <1>4, <2>1, <2>2, SubSeqProperties
  <2>4. \A i \in 1 .. k - f : /\ SubSeq(s, f + 1, k)[i] = s[f + i]
                              /\ SubSeq(t, f + 1, k)[i] = t[f + i]
    BY <1>1, <1>4, <2>1, <2>2, SubSeqProperties
  <2>5. \A i \in 1 .. k - f : f + i \in f + 1 .. k
    BY <1>1
  <2> QED
    BY <2>2, <2>3, <2>4, <2>5, SeqEqual
<1> QED
  BY <1>1, <1>3, <1>4

(* A stretch of a linked log verifies, wherever it was cut. *)
LEMMA SliceLinked ==
  ASSUME Shapes, Linked(log), NEW f \in Nat, NEW e \in History,
         f + Len(e) <= Len(log), e = SubSeq(log, f + 1, f + Len(e))
  PROVE  VerifySlice(f, e)
<1>1. log \in Seq(Acts) /\ Len(log) \in Nat /\ Len(e) \in Nat
  BY LenProperties DEF Shapes, History
<1> SUFFICES ASSUME e # <<>>
             PROVE  /\ HeadKnown(f)
                    /\ \A i \in 1 .. Len(e) :
                         /\ f + i - 1 \in DOMAIN links
                         /\ links[f + i - 1] = HeadAt(f) \o SubSeq(e, 1, i)
  BY DEF VerifySlice
<1>2. Len(e) > 0
  BY EmptySeq, <1>1 DEF History
<1>3. f # 0 => f - 1 \in DOMAIN links /\ links[f - 1] = SubSeq(log, 1, f)
  <2> SUFFICES ASSUME f # 0 PROVE f - 1 \in DOMAIN links /\ links[f - 1] = SubSeq(log, 1, f)
    OBVIOUS
  <2>1. f - 1 \in 0 .. Len(log) - 1 /\ (f - 1) + 1 = f
    BY <1>1, <1>2
  <2> QED
    BY <2>1 DEF Linked
<1>4. HeadKnown(f)
  BY <1>3 DEF HeadKnown
<1>5. HeadAt(f) = SubSeq(log, 1, f)
  BY <1>3, SubSeqEmpty DEF HeadAt
<1>6. ASSUME NEW i \in 1 .. Len(e)
      PROVE  f + i - 1 \in DOMAIN links /\ links[f + i - 1] = HeadAt(f) \o SubSeq(e, 1, i)
  <2>1. f + i - 1 \in 0 .. Len(log) - 1 /\ (f + i - 1) + 1 = f + i
    BY <1>1
  <2>2. f + i - 1 \in DOMAIN links /\ links[f + i - 1] = SubSeq(log, 1, f + i)
    BY <2>1 DEF Linked
  <2>3. SubSeq(SubSeq(log, f + 1, f + Len(e)), 1, i) = SubSeq(log, (f + 1) + 1 - 1, (f + 1) + i - 1)
    <3>1. /\ f + 1 \in 1 .. Len(log) /\ f + Len(e) \in 1 .. Len(log)
          /\ 1 \in 1 .. (f + Len(e)) - (f + 1) + 1 /\ i \in 1 .. (f + Len(e)) - (f + 1) + 1
      BY <1>1, <1>2
    <3> QED
      BY <1>1, <3>1, SubSeqOfSubSeq
  <2>4. (f + 1) + 1 - 1 = f + 1 /\ (f + 1) + i - 1 = f + i
    OBVIOUS
  <2>5. SubSeq(e, 1, i) = SubSeq(log, f + 1, f + i)
    BY <2>3, <2>4
  <2>6. SubSeq(log, 1, f) \o SubSeq(log, f + 1, f + i) = SubSeq(log, 1, f + i)
    <3>1. 1 \in 1 .. Len(log) + 1 /\ f \in 1 - 1 .. Len(log) /\ f + i \in f .. Len(log)
      BY <1>1
    <3> QED
      BY <1>1, <3>1, ConcatAdjacentSubSeq
  <2> QED
    BY <1>5, <2>2, <2>5, <2>6
<1> QED
  BY <1>4, <1>6

(* In particular the whole log does. *)
LEMMA LogVerifies ==
  ASSUME Shapes, Linked(log)
  PROVE  VerifySlice(0, log)
<1>1. log \in Seq(Acts) /\ Len(log) \in Nat
  BY LenProperties DEF Shapes, History
<1>2. 0 + Len(log) = Len(log) /\ 0 + 1 = 1
  BY <1>1
<1>3. log = SubSeq(log, 0 + 1, 0 + Len(log))
  BY <1>1, <1>2, SubSeqFull
<1> QED
  BY <1>1, <1>2, <1>3, SliceLinked DEF History

-----------------------------------------------------------------------------
(* Committing a batch *)

(* The acts of a batch are a history of its length. *)
LEMMA BatchHistory ==
  ASSUME Shapes
  PROVE  /\ BatchActs \in History /\ Len(BatchActs) = Len(op.batch)
         /\ Len(op.batch) \in Nat
         /\ \A i \in 1 .. Len(op.batch) : BatchActs[i] = op.batch[i].act
<1>1. op.batch \in Seq(Event) /\ Len(op.batch) \in Nat
  BY LenProperties DEF Shapes
<1>2. \A i \in 1 .. Len(op.batch) : op.batch[i].act \in Acts
  <2>1. \A i \in 1 .. Len(op.batch) : op.batch[i] \in Event
    BY <1>1, ElementOfSeq
  <2> QED
    BY <2>1 DEF Event
<1>3. BatchActs \in [1 .. Len(op.batch) -> Acts]
  BY <1>2 DEF BatchActs
<1>4. BatchActs \in Seq(Acts) /\ Len(BatchActs) = Len(op.batch)
  BY <1>1, <1>3
<1> QED
  BY <1>1, <1>4 DEF History, BatchActs

(* An accepted batch starts where the log ends, and its links are the
   histories of the log it is about to make. *)
LEMMA FreshLinks ==
  ASSUME RecInv, op.pc = "store", Accepted, Linked(log), NoneIsNoValue
  PROVE  /\ Counted = Len(log) /\ FirstSeq = Len(log)
         /\ DOMAIN Fresh = Len(log) .. (Len(log) + Len(op.batch) - 1)
         /\ \A n \in 0 .. Len(op.batch) - 1 :
              Fresh[Len(log) + n] = SubSeq(log \o BatchActs, 1, Len(log) + n + 1)
<1>1. /\ log \in History /\ Len(log) \in Nat /\ op.batch \in Seq(Event) /\ Len(op.batch) \in Nat
      /\ op.batch # <<>> /\ BatchActs \in History /\ Len(BatchActs) = Len(op.batch)
  BY BatchHistory, LenProperties DEF RecInv, Shapes, History
<1>2. Len(op.batch) > 0
  BY <1>1, EmptySeq
<1>3. Counted = Len(log)
  BY DEF Accepted, Counted, RecInv, CursorTrue
<1>4. FirstSeq = Len(log)
  <2>1. op.batch[1].seq = Counted + 1 - 1
    BY <1>1, <1>2 DEF Accepted
  <2> QED
    BY <1>1, <1>3, <2>1 DEF FirstSeq
<1>5. HeadAt(FirstSeq) = log
  <2>1. CASE Len(log) = 0
    BY <1>1, <1>4, <2>1, EmptySeq DEF HeadAt, History
  <2>2. CASE Len(log) # 0
    <3>1. Len(log) - 1 \in 0 .. Len(log) - 1 /\ (Len(log) - 1) + 1 = Len(log)
      BY <1>1, <2>2
    <3>2. links[Len(log) - 1] = SubSeq(log, 1, Len(log))
      BY <3>1 DEF Linked
    <3> QED
      BY <1>1, <1>4, <2>2, <3>2, SubSeqFull DEF HeadAt, History
  <2> QED
    BY <2>1, <2>2
<1>6. Fresh = [s \in Len(log) .. (Len(log) + Len(op.batch) - 1) |->
                 log \o [i \in 1 .. (s - Len(log) + 1) |-> op.batch[i].act]]
  BY <1>4, <1>5 DEF Fresh, ExtendChain
<1>7. ASSUME NEW n \in 0 .. Len(op.batch) - 1
      PROVE  Fresh[Len(log) + n] = SubSeq(log \o BatchActs, 1, Len(log) + n + 1)
  <2>1. /\ Len(log) + n \in Len(log) .. (Len(log) + Len(op.batch) - 1)
        /\ (Len(log) + n) - Len(log) + 1 = n + 1 /\ n + 1 \in 0 .. Len(BatchActs)
        /\ Len(log) + (n + 1) = Len(log) + n + 1
    BY <1>1
  <2>2. Fresh[Len(log) + n] = log \o [i \in 1 .. (n + 1) |-> op.batch[i].act]
    BY <1>6, <2>1
  <2> DEFINE head == [i \in 1 .. (n + 1) |-> op.batch[i].act]
  <2>3. head = SubSeq(BatchActs, 1, n + 1)
    <3>1. /\ SubSeq(BatchActs, 1, n + 1) \in History
          /\ Len(SubSeq(BatchActs, 1, n + 1)) = n + 1
          /\ \A i \in 1 .. n + 1 : SubSeq(BatchActs, 1, n + 1)[i] = BatchActs[i]
      BY <1>1, <2>1, Prefixes
    <3>2. \A i \in 1 .. n + 1 : BatchActs[i] = op.batch[i].act /\ BatchActs[i] \in Acts
      BY <1>1, <2>1, BatchHistory, ElementOfSeq DEF RecInv, History
    <3>3. head \in [1 .. (n + 1) -> Acts]
      BY <3>2
    <3>4. head \in Seq(Acts) /\ Len(head) = n + 1
      BY <2>1, <3>3
    <3>5. \A i \in 1 .. n + 1 : head[i] = SubSeq(BatchActs, 1, n + 1)[i]
      BY <3>1, <3>2
    <3> HIDE DEF head
    <3> QED
      BY <3>1, <3>4, <3>5, SeqEqual DEF History
  <2>4. SubSeq(log \o BatchActs, 1, Len(log) + (n + 1)) = log \o SubSeq(BatchActs, 1, n + 1)
    BY <1>1, <2>1, Continued
  <2> QED
    BY <2>1, <2>2, <2>3, <2>4
<1> QED
  BY <1>3, <1>4, <1>6, <1>7

(* Lines written past the log's end leave its links alone. *)
LEMMA WrittenBelow ==
  ASSUME Shapes, torn = FALSE, Linked(log), NEW fresh, NEW first,
         \A s \in DOMAIN fresh : s \notin 0 .. Len(log) - 1
  PROVE  /\ DOMAIN Written(fresh, first) = DOMAIN links \cup DOMAIN fresh
         /\ \A s \in DOMAIN fresh : Written(fresh, first)[s] = fresh[s]
         /\ \A n \in 0 .. Len(log) - 1 : /\ n \in DOMAIN Written(fresh, first)
                                         /\ Written(fresh, first)[n] = SubSeq(log, 1, n + 1)
  BY DEF Written, Linked

-----------------------------------------------------------------------------
(* The steps *)

(* A step that leaves the log and its links, begins no append to the log and
   starts no read keeps the invariant. *)
LEMMA Undisturbed ==
  ASSUME RecInv, Shapes', UNCHANGED <<log, links, torn>>, met \subseteq met',
         cursor' # None => cursor' = Len(log),
         op'.pc = "log" => op' = op /\ cursor' = cursor,
         op'.pc = "store" => op'.batch # <<>> /\ phase' # "closed",
         op'.pc = "log" => phase' # "closed",
         reader' \in {reader, None}
  PROVE  RecInv'
<1>1. CursorTrue'
  BY DEF RecInv, CursorTrue
<1>2. ReaderHolds'
  BY DEF RecInv, ReaderHolds
<1>3. Linked(log) => Linked(log)'
  BY DEF Linked
<1>4. op'.pc = "log" => (Linked(log \o BatchActs) => Linked(log \o BatchActs)')
  BY DEF Linked, BatchActs
<1>5. LinksTrue'
  BY <1>3, <1>4 DEF RecInv, LinksTrue
<1>6. op'.pc \in {"store", "log"} => op'.batch # <<>> /\ phase' # "closed"
  BY DEF RecInv
<1> QED
  BY <1>1, <1>2, <1>5, <1>6 DEF RecInv

(* What a failing operation leaves: a buffer of events, and either nothing or
   a close to finish. *)
LEMMA FailsKeepsShapes ==
  ASSUME Shapes, Fails
  PROVE  /\ buffered' \in Seq(Event)
         /\ op' \in [pc : {"idle", "finish"}, kind : {"none", "close"}, batch : {<<>>}]
<1>1. op.batch \o buffered \in Seq(Event)
  BY ConcatProperties DEF Shapes
<1>2. buffered' \in Seq(Event)
  BY <1>1 DEF Fails, Rebuffered, Shapes
<1>3. \/ op' = [op EXCEPT !.pc = "finish", !.kind = "close", !.batch = <<>>]
      \/ op' = Idle
  BY DEF Fails
<1>4. [op EXCEPT !.pc = "finish", !.kind = "close", !.batch = <<>>]
        \in [pc : {"finish"}, kind : {"close"}, batch : {<<>>}]
  <2> DEFINE R == [pc : {"idle", "store", "log", "anchor", "finish"},
                   kind : {"none", "append", "drain", "flush", "close"}, batch : Seq(Event)]
  <2>1. op \in R
    BY DEF Shapes
  <2> QED
    BY <2>1
<1>5. op' \in [pc : {"idle", "finish"}, kind : {"none", "close"}, batch : {<<>>}]
  <2>1. Idle \in [pc : {"idle"}, kind : {"none"}, batch : {<<>>}]
    BY DEF Idle
  <2>2. CASE op' = Idle
    BY <2>1, <2>2
  <2>3. CASE op' # Idle
    BY <1>3, <1>4, <2>3
  <2> QED
    BY <2>2, <2>3
<1> QED
  BY <1>2, <1>5

(* Opening reads the record and forgets the cursor. *)
LEMMA OpenKeeps == RecInv /\ Open => RecInv'
<1> SUFFICES ASSUME RecInv, Open PROVE RecInv'
  OBVIOUS
<1>1. /\ UNCHANGED <<log, synced, links, torn, buffered, op, reader, met>>
      /\ acts' = log /\ cursor' = None /\ phase = "closed"
  BY DEF Open
<1>2. op'.pc \notin {"store", "log"}
  BY <1>1 DEF RecInv
<1>3. Shapes'
  BY <1>1 DEF RecInv, Shapes
<1> QED
  BY <1>1, <1>2, <1>3, Undisturbed

(* The seed hands one event over. *)
LEMMA SeedKeeps == RecInv /\ Seed => RecInv'
<1> SUFFICES ASSUME RecInv, Seed PROVE RecInv'
  OBVIOUS
<1>1. PICK a \in Acts : /\ acts' = Append(acts, a)
                        /\ op' = [pc |-> "store", kind |-> "append",
                                  batch |-> <<[seq |-> Len(acts), act |-> a]>>]
  BY DEF Seed
<1>2. UNCHANGED <<log, synced, links, torn, buffered, cursor, reader, met>> /\ phase' = "opened"
  BY DEF Seed, disk, bounds
<1>3. [seq |-> Len(acts), act |-> a] \in Event /\ acts' \in History
  BY <1>1, LenProperties, AppendProperties DEF Event, RecInv, Shapes, History
<1>4. op'.batch \in Seq(Event) /\ op'.batch # <<>> /\ op'.pc = "store"
  BY <1>1, <1>3
<1>5. Shapes'
  BY <1>1, <1>2, <1>3, <1>4 DEF RecInv, Shapes
<1> QED
  BY <1>2, <1>4, <1>5, Undisturbed DEF RecInv, CursorTrue

(* Announcing touches nothing of the record. *)
LEMMA AnnounceKeeps == RecInv /\ Announce => RecInv'
<1> SUFFICES ASSUME RecInv, Announce PROVE RecInv'
  OBVIOUS
<1>1. UNCHANGED <<log, synced, links, torn, acts, buffered, op, cursor, reader, met>> /\ phase' = "live"
  BY DEF Announce, disk, bounds
<1>2. Shapes'
  BY <1>1 DEF RecInv, Shapes
<1> QED
  BY <1>1, <1>2, Undisturbed DEF RecInv, CursorTrue

(* Enqueueing touches only the buffer. *)
LEMMA EnqueueKeeps == RecInv /\ Enqueue => RecInv'
<1> SUFFICES ASSUME RecInv, Enqueue PROVE RecInv'
  OBVIOUS
<1>1. PICK a \in Acts : /\ acts' = Append(acts, a)
                        /\ buffered' = Append(buffered, [seq |-> Len(acts), act |-> a])
  BY DEF Enqueue
<1>2. UNCHANGED <<log, synced, links, torn, op, cursor, reader, met>> /\ phase' = "live"
  BY DEF Enqueue, disk, bounds
<1>3. [seq |-> Len(acts), act |-> a] \in Event /\ acts' \in History
  BY <1>1, LenProperties, AppendProperties DEF Event, RecInv, Shapes, History
<1>4. buffered' \in Seq(Event)
  BY <1>1, <1>3, AppendProperties DEF RecInv, Shapes
<1>5. Shapes'
  BY <1>2, <1>3, <1>4 DEF RecInv, Shapes
<1> QED
  BY <1>2, <1>5, Undisturbed DEF RecInv, CursorTrue

(* An operation takes the buffer over. *)
LEMMA BeginKeeps ==
  ASSUME RecInv, NEW kind \in {"drain", "flush", "close"}, Begin(kind)
  PROVE  RecInv'
<1>1. /\ op' = [pc |-> IF buffered = <<>> THEN "finish" ELSE "store",
                kind |-> kind, batch |-> buffered]
      /\ buffered' = <<>>
  BY DEF Begin
<1>2. UNCHANGED <<log, synced, links, torn, acts, cursor, reader, met>> /\ phase' # "closed"
  BY DEF Begin, disk, bounds
<1>3. Shapes'
  BY <1>1, <1>2, EmptySeq DEF RecInv, Shapes
<1> QED
  BY <1>1, <1>2, <1>3, Undisturbed DEF RecInv, CursorTrue

(* A refused batch leaves the record, and may have counted it. *)
LEMMA CommitRefusedKeeps == RecInv /\ CommitRefused => RecInv'
<1> SUFFICES ASSUME RecInv, CommitRefused PROVE RecInv'
  OBVIOUS
<1>1. UNCHANGED <<log, synced, links, torn, acts, reader, met>> /\ Fails
  BY DEF CommitRefused, disk, bounds
<1>2. cursor' \in {Counted, cursor}
  BY DEF CommitRefused
<1>3. Len(log) \in Nat
  BY LenProperties DEF RecInv, Shapes, History
<1>4. cursor' \in Nat \cup {None} /\ (cursor' # None => cursor' = Len(log))
  BY <1>2, <1>3 DEF Counted, RecInv, Shapes, CursorTrue
<1>5. /\ buffered' \in Seq(Event)
      /\ op' \in [pc : {"idle", "finish"}, kind : {"none", "close"}, batch : {<<>>}]
  BY <1>1, FailsKeepsShapes DEF RecInv
<1>6. Shapes'
  BY <1>1, <1>4, <1>5, EmptySeq DEF RecInv, Shapes
<1> QED
  BY <1>1, <1>4, <1>5, <1>6, Undisturbed

(* A batch the backend refuses leaves the log and forgets the cursor. *)
LEMMA InnerAppendFailsKeeps == RecInv /\ InnerAppendFails => RecInv'
<1> SUFFICES ASSUME RecInv, InnerAppendFails PROVE RecInv'
  OBVIOUS
<1>1. UNCHANGED <<log, synced, links, torn, acts, reader, met>> /\ Fails /\ cursor' = None
  BY DEF InnerAppendFails, disk
<1>2. /\ buffered' \in Seq(Event)
      /\ op' \in [pc : {"idle", "finish"}, kind : {"none", "close"}, batch : {<<>>}]
  BY <1>1, FailsKeepsShapes DEF RecInv
<1>3. Shapes'
  BY <1>1, <1>2, EmptySeq DEF RecInv, Shapes
<1> QED
  BY <1>1, <1>2, <1>3, Undisturbed

(* A failing anchor leaves log and links. *)
LEMMA AnchorFailsKeeps == RecInv /\ AnchorFails => RecInv'
<1> SUFFICES ASSUME RecInv, AnchorFails PROVE RecInv'
  OBVIOUS
<1>1. /\ UNCHANGED <<log, synced, links, torn, acts, reader, cursor>>
      /\ Fails /\ met \subseteq met'
  BY DEF AnchorFails, disk
<1>2. /\ buffered' \in Seq(Event)
      /\ op' \in [pc : {"idle", "finish"}, kind : {"none", "close"}, batch : {<<>>}]
  BY <1>1, FailsKeepsShapes DEF RecInv
<1>3. Shapes'
  BY <1>1, <1>2, EmptySeq DEF RecInv, Shapes
<1> QED
  BY <1>1, <1>2, <1>3, Undisturbed DEF RecInv, CursorTrue

(* Signing leaves log and links. *)
LEMMA AnchorKeeps == RecInv /\ Anchor => RecInv'
<1> SUFFICES ASSUME RecInv, Anchor PROVE RecInv'
  OBVIOUS
<1>1. UNCHANGED <<log, synced, links, torn, acts, buffered, reader, cursor, met>>
  BY DEF Anchor, bounds
<1>2. /\ op' \in [pc : {"idle", "finish"}, kind : {"none", "append", "drain", "flush", "close"},
                  batch : {<<>>}]
  BY DEF Anchor, Idle, RecInv, Shapes
<1>3. Shapes'
  BY <1>1, <1>2, EmptySeq DEF RecInv, Shapes
<1> QED
  BY <1>1, <1>2, <1>3, Undisturbed DEF RecInv, CursorTrue

(* A flush moves the durable length up to the log's, a close drops the handle. *)
LEMMA FinishKeeps == RecInv /\ Finish => RecInv'
<1> SUFFICES ASSUME RecInv, Finish PROVE RecInv'
  OBVIOUS
<1>1. UNCHANGED <<log, links, torn, reader, met>> /\ op' = Idle
  BY DEF Finish, bounds
<1>2. /\ acts' \in {acts, <<>>} /\ buffered' \in {buffered, <<>>}
      /\ cursor' \in {cursor, None} /\ synced' \in {synced, Len(log)}
  BY DEF Finish
<1>3. Len(log) \in Nat /\ <<>> \in History /\ <<>> \in Seq(Event)
  BY LenProperties, EmptySeq DEF RecInv, Shapes, History
<1>4. op' \in [pc : {"idle", "store", "log", "anchor", "finish"},
                kind : {"none", "append", "drain", "flush", "close"}, batch : Seq(Event)]
  BY <1>1, <1>3 DEF Idle
<1>5. op'.pc = "idle"
  BY <1>1 DEF Idle
<1>6. synced' \in Nat /\ synced' <= Len(log)
  BY <1>2, <1>3 DEF RecInv, Shapes
<1>7. Shapes'
  BY <1>1, <1>2, <1>3, <1>4, <1>6 DEF RecInv, Shapes
<1> QED
  BY <1>1, <1>2, <1>5, <1>7, Undisturbed DEF RecInv, CursorTrue

(* The end of a read. *)
LEMMA ReadEndKeeps == RecInv /\ ReadEnd => RecInv'
<1> SUFFICES ASSUME RecInv, ReadEnd PROVE RecInv'
  OBVIOUS
<1>1. /\ UNCHANGED <<log, synced, links, torn, phase, acts, buffered, op, cursor, met>>
      /\ reader' = None
  BY DEF ReadEnd, disk, bounds
<1>2. Shapes'
  BY <1>1 DEF RecInv, Shapes
<1> QED
  BY <1>1, <1>2, Undisturbed DEF RecInv, CursorTrue

(* The log an accepted batch is about to make. *)
LEMMA AppendedLog ==
  ASSUME Shapes
  PROVE  /\ log \o BatchActs \in History
         /\ Len(log \o BatchActs) = Len(log) + Len(op.batch)
         /\ \A n \in 0 .. Len(log) : SubSeq(log \o BatchActs, 1, n) = SubSeq(log, 1, n)
<1>1. log \in History /\ BatchActs \in History /\ Len(BatchActs) = Len(op.batch)
  BY BatchHistory DEF Shapes
<1> DEFINE t == BatchActs
<1>2. t \in History
  BY <1>1
<1> HIDE DEF t
<1>3. /\ log \o t \in History /\ Len(log \o t) = Len(log) + Len(t)
      /\ \A n \in 0 .. Len(log) : SubSeq(log \o t, 1, n) = SubSeq(log, 1, n)
  BY <1>1, <1>2, Continued
<1> QED
  BY <1>1, <1>3 DEF t

(* A read takes a stretch of the log as it is. *)
LEMMA ReadBeginKeeps == RecInv /\ ReadBegin => RecInv'
<1> SUFFICES ASSUME RecInv, ReadBegin PROVE RecInv'
  OBVIOUS
<1>1. PICK from \in 0 .. Len(log) :
        reader' = [from |-> from, events |-> SubSeq(log, from + 1, Len(log))]
  BY DEF ReadBegin
<1>2. UNCHANGED <<log, synced, links, torn, phase, acts, buffered, op, cursor, met>>
  BY DEF ReadBegin, disk, bounds
<1>3. log \in Seq(Acts) /\ Len(log) \in Nat
  BY LenProperties DEF RecInv, Shapes, History
<1> DEFINE e == SubSeq(log, from + 1, Len(log))
<1>4. e \in History /\ Len(e) = Len(log) - from
  <2>1. \A i \in from + 1 .. Len(log) : log[i] \in Acts
    BY <1>3, ElementOfSeq
  <2>2. Len(e) = IF from + 1 <= Len(log) THEN Len(log) - (from + 1) + 1 ELSE 0
    BY <1>3, <2>1, SubSeqProperties
  <2>3. e \in Seq(Acts)
    BY <1>3, <2>1, SubSeqProperties
  <2> QED
    BY <1>3, <2>2, <2>3 DEF History
<1>5. from + Len(e) = Len(log) /\ from \in Nat
  BY <1>3, <1>4
<1> HIDE DEF e
<1>6. reader' = [from |-> from, events |-> e] /\ e = SubSeq(log, from + 1, from + Len(e))
  BY <1>1, <1>5 DEF e
<1>7. reader' \in [from : Nat, events : History]
  BY <1>4, <1>5, <1>6
<1>8. ReaderHolds'
  BY <1>2, <1>3, <1>5, <1>6 DEF ReaderHolds
<1>9. Shapes'
  BY <1>2, <1>7 DEF RecInv, Shapes
<1>10. CursorTrue' /\ LinksTrue'
  BY <1>2 DEF RecInv, CursorTrue, LinksTrue, Linked, BatchActs
<1> QED
  BY <1>2, <1>8, <1>9, <1>10 DEF RecInv

(* The commit writes the histories of the log the batch is about to make. *)
LEMMA CommitKeeps == RecInv /\ Commit => RecInv'
<1> SUFFICES ASSUME RecInv, Commit PROVE RecInv'
  OBVIOUS
<1>1. /\ op.pc = "store" /\ Accepted
      /\ links' = Written(Fresh, FirstSeq) /\ torn' = FALSE
      /\ cursor' = Counted /\ op' = [op EXCEPT !.pc = "log"]
      /\ UNCHANGED <<log, synced, phase, acts, buffered, reader, met>>
  BY DEF Commit, bounds
<1>2. /\ log \in History /\ Len(log) \in Nat /\ Len(op.batch) \in Nat
      /\ BatchActs \in History /\ Len(BatchActs) = Len(op.batch)
  BY BatchHistory, LenProperties DEF RecInv, Shapes, History
<1>3. op'.pc = "log" /\ op'.batch = op.batch
  BY <1>1 DEF RecInv, Shapes
<1>4. op' \in [pc : {"idle", "store", "log", "anchor", "finish"},
                kind : {"none", "append", "drain", "flush", "close"}, batch : Seq(Event)]
  BY <1>1 DEF RecInv, Shapes
<1>5. Counted = Len(log)
  BY <1>1 DEF Accepted, Counted, RecInv, CursorTrue
<1>6. CursorTrue'
  BY <1>1, <1>2, <1>5, NoneIsNoValue DEF CursorTrue
<1>7. Shapes'
  BY <1>1, <1>2, <1>4, <1>5 DEF RecInv, Shapes
<1>8. ReaderHolds'
  BY <1>1 DEF RecInv, ReaderHolds
<1>9. ASSUME "torn" \notin met PROVE Linked(log)' /\ Linked(log \o BatchActs)'
  <2>1. torn = FALSE /\ Linked(log)
    BY <1>9 DEF RecInv, LinksTrue
  <2>2. /\ DOMAIN Fresh = Len(log) .. (Len(log) + Len(op.batch) - 1)
        /\ \A n \in 0 .. Len(op.batch) - 1 :
              Fresh[Len(log) + n] = SubSeq(log \o BatchActs, 1, Len(log) + n + 1)
    BY <1>1, <2>1, FreshLinks, NoneIsNoValue
  <2>3. \A s \in DOMAIN Fresh : s \notin 0 .. Len(log) - 1
    BY <1>2, <2>2
  <2>4. /\ DOMAIN links' = DOMAIN links \cup DOMAIN Fresh
        /\ \A s \in DOMAIN Fresh : links'[s] = Fresh[s]
        /\ \A n \in 0 .. Len(log) - 1 : n \in DOMAIN links' /\ links'[n] = SubSeq(log, 1, n + 1)
    BY <1>1, <2>1, <2>3, WrittenBelow DEF RecInv
  <2>5. BatchActs' = BatchActs
    BY <1>3 DEF BatchActs
  <2>6. /\ Len(log \o BatchActs) = Len(log) + Len(op.batch)
        /\ \A n \in 0 .. Len(log) : SubSeq(log \o BatchActs, 1, n) = SubSeq(log, 1, n)
    BY <1>2, AppendedLog DEF RecInv
  <2>7. ASSUME NEW n \in 0 .. Len(log \o BatchActs) - 1
        PROVE  n \in DOMAIN links' /\ links'[n] = SubSeq(log \o BatchActs, 1, n + 1)
    <3>1. CASE n < Len(log)
      <4>1. n \in 0 .. Len(log) - 1 /\ n + 1 \in 0 .. Len(log)
        BY <1>2, <2>6, <3>1
      <4> QED
        BY <2>4, <2>6, <4>1
    <3>2. CASE n >= Len(log)
      <4> DEFINE m == n - Len(log)
      <4>1. /\ m \in 0 .. Len(op.batch) - 1 /\ Len(log) + m = n
            /\ Len(log) + m + 1 = n + 1 /\ n \in DOMAIN Fresh
        BY <1>2, <2>2, <2>6, <3>2
      <4> HIDE DEF m
      <4>2. Fresh[Len(log) + m] = SubSeq(log \o BatchActs, 1, Len(log) + m + 1)
        BY <2>2, <4>1
      <4> QED
        BY <2>4, <4>1, <4>2
    <3> QED
      BY <1>2, <2>6, <3>1, <3>2
  <2> QED
    BY <1>1, <2>4, <2>5, <2>7 DEF Linked
<1>10. LinksTrue'
  BY <1>1, <1>9 DEF LinksTrue
<1>11. op'.pc \in {"store", "log"} => op'.batch # <<>> /\ phase' # "closed"
  BY <1>1, <1>3 DEF RecInv
<1> QED
  BY <1>6, <1>7, <1>8, <1>10, <1>11 DEF RecInv

(* The append makes the log the links were committed for. *)
LEMMA InnerAppendKeeps == RecInv /\ InnerAppend => RecInv'
<1> SUFFICES ASSUME RecInv, InnerAppend PROVE RecInv'
  OBVIOUS
<1>1. /\ op.pc = "log" /\ log' = log \o BatchActs /\ cursor' = cursor + Len(op.batch)
      /\ op' = IF op.kind = "append" THEN Idle ELSE [op EXCEPT !.pc = "anchor"]
      /\ UNCHANGED <<synced, links, torn, phase, acts, buffered, reader, met>>
  BY DEF InnerAppend, bounds, BatchActs
<1>2. /\ log \in History /\ Len(log) \in Nat /\ Len(op.batch) \in Nat
      /\ BatchActs \in History /\ Len(BatchActs) = Len(op.batch)
  BY BatchHistory, LenProperties DEF RecInv, Shapes, History
<1>3. /\ log' \in History /\ Len(log') = Len(log) + Len(op.batch)
      /\ \A n \in 0 .. Len(log) : SubSeq(log', 1, n) = SubSeq(log, 1, n)
  BY <1>1, AppendedLog DEF RecInv
<1>4. op' \in [pc : {"idle", "anchor"},
                kind : {"none", "append", "drain", "flush", "close"}, batch : Seq(Event)]
  <2>1. Idle \in [pc : {"idle"}, kind : {"none"}, batch : Seq(Event)]
    BY EmptySeq DEF Idle
  <2>2. [op EXCEPT !.pc = "anchor"] \in [pc : {"anchor"},
            kind : {"none", "append", "drain", "flush", "close"}, batch : Seq(Event)]
    BY DEF RecInv, Shapes
  <2>3. CASE op.kind = "append"
    <3>1. op' = Idle
      BY <1>1, <2>3
    <3> QED
      BY <2>1, <3>1
  <2>4. CASE op.kind # "append"
    <3>1. op' = [op EXCEPT !.pc = "anchor"]
      BY <1>1, <2>4
    <3> QED
      BY <2>2, <3>1
  <2> QED
    BY <2>3, <2>4
<1>5. op'.pc \in {"idle", "anchor"}
  BY <1>4
<1>6. cursor = Len(log)
  BY <1>1 DEF RecInv, CursorTrue
<1>7. CursorTrue'
  BY <1>1, <1>3, <1>5, <1>6 DEF CursorTrue
<1>8. Shapes'
  BY <1>1, <1>2, <1>3, <1>4, <1>6 DEF RecInv, Shapes
<1>9. ReaderHolds'
  <2> SUFFICES ASSUME reader # None
               PROVE  /\ reader.from + Len(reader.events) <= Len(log')
                      /\ reader.events = SubSeq(log', reader.from + 1,
                                                reader.from + Len(reader.events))
    BY <1>1 DEF ReaderHolds
  <2> DEFINE f == reader.from
             k == f + Len(reader.events)
  <2>1. f \in Nat /\ Len(reader.events) \in Nat
    BY LenProperties DEF RecInv, Shapes, History
  <2>2. k = f + Len(reader.events) /\ k <= Len(log) /\ reader.events = SubSeq(log, f + 1, k)
    BY DEF RecInv, ReaderHolds
  <2>3. k \in 0 .. Len(log) /\ f + 1 \in Nat /\ k \in Nat
    BY <1>2, <2>1, <2>2
  <2> HIDE DEF f, k
  <2>4. SubSeq(log', f + 1, k) = SubSeq(log, f + 1, k)
    BY <1>2, <1>3, <2>1, <2>3, SameStretch
  <2>5. k <= Len(log') /\ reader.events = SubSeq(log', f + 1, k)
    <3>1. k <= Len(log')
      <4>1. Len(log') = Len(log) + Len(op.batch)
        BY <1>3
      <4>2. Len(log) <= Len(log')
        BY <1>2, <4>1
      <4> QED
        BY <1>2, <2>3, <4>1, <4>2
    <3>2. reader.events = SubSeq(log', f + 1, k)
      BY <2>2, <2>4, Zenon
    <3> QED
      BY <3>1, <3>2
  <2> QED
    BY <2>5 DEF f, k
<1>10. LinksTrue'
  BY <1>1, <1>5 DEF RecInv, LinksTrue, Linked
<1> QED
  BY <1>5, <1>7, <1>8, <1>9, <1>10 DEF RecInv

(* A prefix of a linked history is linked. *)
LEMMA PrefixLinked ==
  ASSUME NEW h \in History, NEW n \in 0 .. Len(h), Linked(h)
  PROVE  Linked(SubSeq(h, 1, n))
<1>1. Len(h) \in Nat /\ n \in Nat
  BY LenProperties DEF History
<1>2. Len(SubSeq(h, 1, n)) = n
  BY Prefixes
<1>3. ASSUME NEW i \in 0 .. n - 1
      PROVE  i \in DOMAIN links /\ links[i] = SubSeq(SubSeq(h, 1, n), 1, i + 1)
  <2>1. i \in 0 .. Len(h) - 1 /\ i + 1 \in 0 .. n
    BY <1>1
  <2>2. i \in DOMAIN links /\ links[i] = SubSeq(h, 1, i + 1)
    BY <2>1 DEF Linked
  <2>3. SubSeq(SubSeq(h, 1, n), 1, i + 1) = SubSeq(h, 1, i + 1)
    BY <2>1, PrefixOfPrefix
  <2> QED
    BY <2>2, <2>3
<1> QED
  BY <1>2, <1>3 DEF Linked

(* What a death leaves of the sidecar still links the log: it cut no line
   below the log's end. *)
LEMMA DeathKeepsLinks ==
  ASSUME RecInv, LinksAfterDeath, "torn" \notin met
  PROVE  \A n \in 0 .. Len(log) - 1 : n \in DOMAIN links' /\ links'[n] = SubSeq(log, 1, n + 1)
<1>1. torn = FALSE /\ Linked(log)
  BY DEF RecInv, LinksTrue
<1>2. CASE links' = links
  BY <1>1, <1>2 DEF Linked
<1>3. CASE links' # links
  <2>1. PICK k \in 0 .. Len(op.batch) :
          /\ op.pc = "store" /\ Accepted /\ k # 0
          /\ links' = Written([s \in FirstSeq .. (FirstSeq + k - 1) |-> Fresh[s]], FirstSeq)
    BY <1>3 DEF LinksAfterDeath
  <2>2. FirstSeq = Len(log)
    BY <1>1, <2>1, FreshLinks, NoneIsNoValue
  <2>3. Len(log) \in Nat /\ Len(op.batch) \in Nat
    BY LenProperties, BatchHistory DEF RecInv, Shapes, History
  <2> DEFINE fresh == [s \in FirstSeq .. (FirstSeq + k - 1) |-> Fresh[s]]
  <2>4. \A s \in DOMAIN fresh : s \notin 0 .. Len(log) - 1
    BY <2>2, <2>3
  <2>5. links' = Written(fresh, FirstSeq)
    BY <2>1
  <2> HIDE DEF fresh
  <2>6. \A n \in 0 .. Len(log) - 1 : /\ n \in DOMAIN Written(fresh, FirstSeq)
                                     /\ Written(fresh, FirstSeq)[n] = SubSeq(log, 1, n + 1)
    BY <1>1, <2>4, WrittenBelow DEF RecInv
  <2> QED
    BY <2>5, <2>6
<1> QED
  BY <1>2, <1>3

(* The handle is gone; what is left of the log is linked. *)
LEMMA CrashKeeps == RecInv /\ Crash => RecInv'
<1> SUFFICES ASSUME RecInv, Crash PROVE RecInv'
  OBVIOUS
<1>1. /\ LinksAfterDeath /\ LogAfterDeath
      /\ met' = IF torn' THEN met \cup {"torn"} ELSE met
      /\ acts' = <<>> /\ buffered' = <<>> /\ op' = Idle
      /\ cursor' = None /\ reader' = None /\ synced' = synced
  BY DEF Crash
<1> DEFINE whole == IF op.pc = "log" THEN log \o BatchActs ELSE log
<1>2. log \in History /\ Len(log) \in Nat /\ synced \in Nat /\ synced <= Len(log)
  BY LenProperties DEF RecInv, Shapes, History
<1>3. /\ whole \in History /\ Len(log) <= Len(whole) /\ Len(whole) \in Nat
  BY <1>2, AppendedLog, BatchHistory DEF RecInv
<1>4. PICK n : n \in synced .. Len(whole) /\ log' = SubSeq(whole, 1, n)
  BY <1>1, <1>2 DEF LogAfterDeath, BatchActs
<1> HIDE DEF whole
<1>5. n \in 0 .. Len(whole) /\ synced <= n /\ n \in Nat
  BY <1>2, <1>3, <1>4
<1>6. log' \in History /\ Len(log') = n
  BY <1>3, <1>4, <1>5, Prefixes
<1>7. torn' \in BOOLEAN
  BY <1>1 DEF LinksAfterDeath, RecInv, Shapes
<1>8. op' \in [pc : {"idle", "store", "log", "anchor", "finish"},
                kind : {"none", "append", "drain", "flush", "close"}, batch : Seq(Event)]
  BY <1>1, EmptySeq DEF Idle
<1>9. op'.pc = "idle"
  BY <1>1 DEF Idle
<1>10. Shapes'
  <2>1. acts' \in History /\ buffered' \in Seq(Event)
    BY <1>1, EmptySeq DEF History
  <2>2. synced' \in Nat /\ synced' <= Len(log')
    BY <1>1, <1>2, <1>5, <1>6
  <2> QED
    BY <1>1, <1>6, <1>7, <1>8, <2>1, <2>2 DEF Shapes
<1>11. CursorTrue' /\ ReaderHolds'
  BY <1>1, <1>9 DEF CursorTrue, ReaderHolds
<1>12. ASSUME "torn" \notin met' PROVE torn' = FALSE /\ Linked(log)'
  <2>1. "torn" \notin met /\ torn' = FALSE
    BY <1>1, <1>7, <1>12
  <2>2. /\ Linked(log)
        /\ op.pc = "log" => Linked(log \o BatchActs)
    BY <2>1 DEF RecInv, LinksTrue
  <2>3. Linked(whole)
    BY <2>2 DEF whole
  <2>4. Linked(log')
    BY <1>3, <1>4, <1>5, <2>3, PrefixLinked
  <2>5. \A i \in 0 .. Len(log') - 1 : i \in DOMAIN links' /\ links'[i] = SubSeq(log', 1, i + 1)
    <3>1. CASE op.pc = "log"
      <4>1. links' = links
        BY <1>1, <3>1 DEF LinksAfterDeath
      <4> QED
        BY <2>4, <4>1 DEF Linked
    <3>2. CASE op.pc # "log"
      <4>1. whole = log
        BY <3>2 DEF whole
      <4>2. ASSUME NEW i \in 0 .. n - 1
            PROVE  i \in DOMAIN links' /\ links'[i] = SubSeq(log', 1, i + 1)
        <5>1. i \in 0 .. Len(log) - 1 /\ i + 1 \in 0 .. n
          BY <1>2, <1>5, <4>1
        <5>2. i \in DOMAIN links' /\ links'[i] = SubSeq(log, 1, i + 1)
          BY <1>1, <2>1, <5>1, DeathKeepsLinks
        <5>3. SubSeq(SubSeq(log, 1, n), 1, i + 1) = SubSeq(log, 1, i + 1)
          BY <1>2, <1>5, <4>1, <5>1, PrefixOfPrefix
        <5> QED
          BY <1>4, <4>1, <5>2, <5>3
      <4> QED
        BY <1>6, <4>2
    <3> QED
      BY <3>1, <3>2
  <2> QED
    BY <2>1, <2>5 DEF Linked
<1>13. LinksTrue'
  BY <1>9, <1>12 DEF LinksTrue
<1> QED
  BY <1>9, <1>10, <1>11, <1>13 DEF RecInv

-----------------------------------------------------------------------------
(* The theorems *)

(* The empty record satisfies the invariant. *)
LEMMA InitHolds == Init => RecInv
<1> SUFFICES ASSUME Init PROVE RecInv
  OBVIOUS
<1>1. /\ log = <<>> /\ synced = 0 /\ torn = FALSE /\ acts = <<>> /\ buffered = <<>>
      /\ op = Idle /\ cursor = None /\ reader = None
  BY DEF Init
<1>2. log \in History /\ Len(log) = 0 /\ acts \in History /\ buffered \in Seq(Event)
  BY <1>1, EmptySeq DEF History
<1>3. op \in [pc : {"idle", "store", "log", "anchor", "finish"},
              kind : {"none", "append", "drain", "flush", "close"}, batch : Seq(Event)]
  BY <1>1, EmptySeq DEF Idle
<1>4. op.pc = "idle"
  BY <1>1 DEF Idle
<1>5. Shapes
  <2>1. synced \in Nat /\ synced <= Len(log)
    <3>1. synced = 0 /\ Len(log) = 0
      BY <1>1, <1>2
    <3> QED
      BY <3>1
  <2>2. torn \in BOOLEAN /\ cursor \in Nat \cup {None} /\ reader = None
    BY <1>1
  <2> QED
    BY <1>2, <1>3, <2>1, <2>2 DEF Shapes
<1>6. CursorTrue /\ ReaderHolds /\ LinksTrue
  BY <1>1, <1>2, <1>4 DEF CursorTrue, ReaderHolds, LinksTrue, Linked
<1> QED
  BY <1>4, <1>5, <1>6 DEF RecInv

(* A step of anything else changes nothing the invariant reads. *)
LEMMA StutterKeeps == RecInv /\ UNCHANGED vars => RecInv'
<1> SUFFICES ASSUME RecInv, UNCHANGED vars PROVE RecInv'
  OBVIOUS
<1>1. UNCHANGED <<log, synced, links, torn, phase, acts, buffered, op, cursor, reader, met>>
  BY DEF vars
<1>2. Shapes'
  BY <1>1 DEF RecInv, Shapes
<1>3. CursorTrue' /\ ReaderHolds' /\ LinksTrue'
  BY <1>1 DEF RecInv, CursorTrue, ReaderHolds, LinksTrue, Linked, BatchActs
<1> QED
  BY <1>1, <1>2, <1>3 DEF RecInv

(* The inductive invariant: below the log's length the links are the log's own
   histories, and a committed batch's links are those of the log it makes. *)
THEOREM RecordInvariant == Spec => []RecInv
<1>1. Init => RecInv
  BY InitHolds
<1>2. RecInv /\ [Next]_vars => RecInv'
  <2> SUFFICES ASSUME RecInv, [Next]_vars PROVE RecInv'
    OBVIOUS
  <2>1. CASE Open
    BY <2>1, OpenKeeps
  <2>2. CASE Seed
    BY <2>2, SeedKeeps
  <2>3. CASE Announce
    BY <2>3, AnnounceKeeps
  <2>4. CASE Enqueue
    BY <2>4, EnqueueKeeps
  <2>5. CASE \E kind \in {"drain", "flush", "close"} : Begin(kind)
    BY <2>5, BeginKeeps
  <2>6. CASE Commit
    BY <2>6, CommitKeeps
  <2>7. CASE CommitRefused
    BY <2>7, CommitRefusedKeeps
  <2>8. CASE InnerAppend
    BY <2>8, InnerAppendKeeps
  <2>9. CASE InnerAppendFails
    BY <2>9, InnerAppendFailsKeeps
  <2>10. CASE Anchor
    BY <2>10, AnchorKeeps
  <2>11. CASE AnchorFails
    BY <2>11, AnchorFailsKeeps
  <2>12. CASE Finish
    BY <2>12, FinishKeeps
  <2>13. CASE ReadBegin
    BY <2>13, ReadBeginKeeps
  <2>14. CASE ReadEnd
    BY <2>14, ReadEndKeeps
  <2>15. CASE Crash
    BY <2>15, CrashKeeps
  <2>16. CASE UNCHANGED vars
    BY <2>16, StutterKeeps
  <2> QED
    BY <2>1, <2>2, <2>3, <2>4, <2>5, <2>6, <2>7, <2>8, <2>9, <2>10, <2>11,
       <2>12, <2>13, <2>14, <2>15, <2>16 DEF Next
<1> QED
  BY <1>1, <1>2, PTL DEF Spec

(* Whatever appends failed and wherever the process died, the log reads back
   against its sidecar, as long as no death cut a line of it in two
   (store.js:15-21). *)
THEOREM LogAlwaysEvidence == Spec => []LogIsEvidence
<1>1. RecInv => LogIsEvidence
  BY LogVerifies DEF RecInv, LinksTrue, LogIsEvidence, ChainConforms
<1> QED
  BY <1>1, RecordInvariant, PTL

(* A reader that took the log before the links verifies what it took, under
   the same condition, whatever was appended in between (index.js). *)
THEOREM ReadsAlwaysVerify == Spec => []ReadsVerify
<1>1. RecInv => ReadsVerify
  <2> SUFFICES ASSUME RecInv, "torn" \notin met, reader # None
               PROVE  VerifySlice(reader.from, reader.events)
    BY DEF ReadsVerify
  <2>1. Linked(log) /\ Shapes
    BY DEF RecInv, LinksTrue
  <2>2. reader.from \in Nat /\ reader.events \in History
    BY <2>1 DEF Shapes
  <2>3. /\ reader.from + Len(reader.events) <= Len(log)
        /\ reader.events = SubSeq(log, reader.from + 1, reader.from + Len(reader.events))
    BY DEF RecInv, ReaderHolds
  <2> QED
    BY <2>1, <2>2, <2>3, SliceLinked
<1> QED
  BY <1>1, RecordInvariant, PTL

-----------------------------------------------------------------------------
(* Acts are kept *)

ElementsOf(s) == {s[i] : i \in 1 .. Len(s)}
Entries == ElementsOf(op.batch) \cup ElementsOf(buffered)

(* The log is what the session did first; what is held is what it did, each act
   under its seq, and every act past the log is held.  A batch about to be stored
   starts where the log ends, and one about to be anchored is in the log. *)
Keeping ==
  /\ op.kind # "close"
  /\ Len(log) <= Len(acts) /\ \A n \in 1 .. Len(log) : log[n] = acts[n]
  /\ \A e \in Entries : e.seq < Len(acts) /\ e.act = acts[e.seq + 1]
  /\ \A n \in Len(log) .. (Len(acts) - 1) : \E e \in Entries : e.seq = n
  /\ op.pc = "log" => \A i \in 1 .. Len(op.batch) : op.batch[i].seq = Len(log) + i - 1
  /\ op.pc = "anchor" => \A i \in 1 .. Len(op.batch) : op.batch[i].seq < Len(log)

KeptInv ==
  /\ phase = "closed" => op = Idle /\ buffered = <<>>
  /\ op.pc \in {"idle", "finish"} => op.batch = <<>>
  /\ phase \in {"opened", "live"} => Keeping

(* What a sequence of events holds. *)
LEMMA ElementsOfEmpty == ElementsOf(<<>>) = {}
BY DEF ElementsOf

LEMMA ElementsOfBoth ==
  ASSUME NEW s \in Seq(Event), NEW t \in Seq(Event)
  PROVE  ElementsOf(s \o t) = ElementsOf(s) \cup ElementsOf(t)
<1> DEFINE u == s \o t
<1>1. /\ Len(s) \in Nat /\ Len(t) \in Nat /\ Len(u) = Len(s) + Len(t)
      /\ \A i \in 1 .. Len(s) + Len(t) : u[i] = IF i <= Len(s) THEN s[i] ELSE t[i - Len(s)]
  BY LenProperties, ConcatProperties
<1> HIDE DEF u
<1>2. ASSUME NEW e \in ElementsOf(u) PROVE e \in ElementsOf(s) \cup ElementsOf(t)
  <2>1. PICK i \in 1 .. Len(s) + Len(t) : e = u[i]
    BY <1>1, <1>2 DEF ElementsOf
  <2>2. CASE i <= Len(s)
    <3>1. i \in 1 .. Len(s) /\ e = s[i]
      BY <1>1, <2>1, <2>2
    <3> QED BY <3>1 DEF ElementsOf
  <2>3. CASE ~(i <= Len(s))
    <3>1. i - Len(s) \in 1 .. Len(t) /\ e = t[i - Len(s)]
      BY <1>1, <2>1, <2>3
    <3> QED BY <3>1 DEF ElementsOf
  <2> QED BY <2>2, <2>3
<1>3. ASSUME NEW e \in ElementsOf(s) PROVE e \in ElementsOf(u)
  <2>1. PICK i \in 1 .. Len(s) : e = s[i]
    BY <1>3 DEF ElementsOf
  <2>2. i \in 1 .. Len(u) /\ u[i] = e
    BY <1>1, <2>1
  <2> QED BY <2>2 DEF ElementsOf
<1>4. ASSUME NEW e \in ElementsOf(t) PROVE e \in ElementsOf(u)
  <2>1. PICK i \in 1 .. Len(t) : e = t[i]
    BY <1>4 DEF ElementsOf
  <2>2. Len(s) + i \in 1 .. Len(s) + Len(t) /\ ~(Len(s) + i <= Len(s)) /\ (Len(s) + i) - Len(s) = i
    BY <1>1
  <2>3. Len(s) + i \in 1 .. Len(u) /\ u[Len(s) + i] = e
    BY <1>1, <2>1, <2>2
  <2> QED BY <2>3 DEF ElementsOf
<1>5. ElementsOf(u) = ElementsOf(s) \cup ElementsOf(t)
  BY <1>2, <1>3, <1>4
<1> QED BY <1>5 DEF u

LEMMA ElementsOfOneMore ==
  ASSUME NEW s \in Seq(Event), NEW e \in Event
  PROVE  ElementsOf(Append(s, e)) = ElementsOf(s) \cup {e}
<1> DEFINE u == Append(s, e)
<1>1. /\ Len(s) \in Nat /\ Len(u) = Len(s) + 1
      /\ \A i \in 1 .. Len(s) : u[i] = s[i]
      /\ u[Len(s) + 1] = e
  BY LenProperties, AppendProperties
<1> HIDE DEF u
<1>2. 1 .. Len(u) = (1 .. Len(s)) \cup {Len(s) + 1}
  BY <1>1
<1>3. ElementsOf(u) = ElementsOf(s) \cup {e}
  BY <1>1, <1>2 DEF ElementsOf
<1> QED BY <1>3 DEF u

(* What is held are events. *)
LEMMA EntriesAreEvents ==
  ASSUME Shapes
  PROVE  /\ op.batch \in Seq(Event) /\ buffered \in Seq(Event)
         /\ Len(log) \in Nat /\ Len(acts) \in Nat /\ Len(op.batch) \in Nat
         /\ Entries \subseteq Event
<1>1. /\ op.batch \in Seq(Event) /\ buffered \in Seq(Event)
      /\ Len(log) \in Nat /\ Len(acts) \in Nat /\ Len(op.batch) \in Nat
  BY LenProperties DEF Shapes, History
<1>2. ElementsOf(op.batch) \subseteq Event /\ ElementsOf(buffered) \subseteq Event
  BY <1>1, ElementOfSeq DEF ElementsOf
<1> QED BY <1>1, <1>2 DEF Entries

(* A step that moves what is held about, and stores nothing. *)
LEMMA MovedAbout ==
  ASSUME Keeping, UNCHANGED <<log, acts>>, Entries' = Entries, op'.kind # "close",
         op'.pc = "log" => \A i \in 1 .. Len(op'.batch) : op'.batch[i].seq = Len(log) + i - 1,
         op'.pc = "anchor" => op' = op
  PROVE  Keeping'
<1>1. \A n \in Len(log') .. (Len(acts') - 1) : \E e \in Entries' : e.seq = n
  BY DEF Keeping
<1>2. \A e \in Entries' : e.seq < Len(acts') /\ e.act = acts'[e.seq + 1]
  BY DEF Keeping
<1>3. op'.pc = "anchor" => \A i \in 1 .. Len(op'.batch) : op'.batch[i].seq < Len(log')
  BY DEF Keeping
<1>4. Len(log') <= Len(acts') /\ \A n \in 1 .. Len(log') : log'[n] = acts'[n]
  BY DEF Keeping
<1> QED BY <1>1, <1>2, <1>3, <1>4 DEF Keeping

(* One act more, held under its seq. *)
LEMMA OneActMore ==
  ASSUME Shapes, Keeping, NEW a \in Acts, acts' = Append(acts, a), log' = log,
         Entries' = Entries \cup {[seq |-> Len(acts), act |-> a]}, op'.kind # "close",
         op'.pc \in {"log", "anchor"} => op' = op
  PROVE  Keeping'
<1>1. /\ Len(log) \in Nat /\ Len(acts) \in Nat /\ Entries \subseteq Event
  BY EntriesAreEvents
<1>2. /\ Len(acts') = Len(acts) + 1 /\ \A n \in 1 .. Len(acts) : acts'[n] = acts[n]
      /\ acts'[Len(acts) + 1] = a
  BY AppendProperties DEF Shapes, History
<1> DEFINE new == [seq |-> Len(acts), act |-> a]
<1>3. new.seq = Len(acts) /\ new.act = a /\ new \in Entries' /\ Entries \subseteq Entries'
  OBVIOUS
<1>4. \A e \in Entries' : e = new \/ e \in Entries
  OBVIOUS
<1> HIDE DEF new
<1>5. ASSUME NEW e \in Entries' PROVE e.seq < Len(acts') /\ e.act = acts'[e.seq + 1]
  <2>1. CASE e = new
    BY <1>1, <1>2, <1>3, <2>1
  <2>2. CASE e \in Entries
    <3>1. e.seq \in Nat /\ e.seq < Len(acts) /\ e.act = acts[e.seq + 1]
      BY <1>1, <2>2 DEF Keeping, Event
    <3>2. e.seq + 1 \in 1 .. Len(acts)
      BY <1>1, <3>1
    <3> QED BY <1>1, <1>2, <3>1, <3>2
  <2> QED BY <1>4, <2>1, <2>2
<1>6. ASSUME NEW n \in Len(log') .. (Len(acts') - 1) PROVE \E e \in Entries' : e.seq = n
  <2>1. CASE n = Len(acts)
    BY <1>3, <2>1
  <2>2. CASE n # Len(acts)
    <3>1. n \in Len(log) .. (Len(acts) - 1)
      BY <1>1, <1>2, <2>2
    <3> QED BY <1>3, <3>1 DEF Keeping
  <2> QED BY <2>1, <2>2
<1>7. Len(log') <= Len(acts') /\ \A n \in 1 .. Len(log') : log'[n] = acts'[n]
  BY <1>1, <1>2 DEF Keeping
<1>8. /\ op'.pc = "log" => \A i \in 1 .. Len(op'.batch) : op'.batch[i].seq = Len(log') + i - 1
      /\ op'.pc = "anchor" => \A i \in 1 .. Len(op'.batch) : op'.batch[i].seq < Len(log')
  BY DEF Keeping
<1> QED BY <1>5, <1>6, <1>7, <1>8 DEF Keeping

(* An operation that fails gives back what it holds, or the session is closing. *)
LEMMA FailsKeeps ==
  ASSUME RecInv, KeptInv, Fails, op.pc # "idle", UNCHANGED <<log, acts>>
  PROVE  KeptInv'
<1>1. /\ op.batch \in Seq(Event) /\ buffered \in Seq(Event)
  BY EntriesAreEvents DEF RecInv
<1>2. op'.batch = <<>> /\ op'.pc \in {"idle", "finish"}
  BY FailsKeepsShapes DEF RecInv
<1>3. phase # "closed"
  BY DEF KeptInv, Idle
<1>4. phase' # "closed"
  BY <1>3 DEF Fails
<1>5. ASSUME phase' \in {"opened", "live"} PROVE Keeping'
  <2>1. op.kind # "append" /\ phase' = phase
    BY <1>5 DEF Fails
  <2>2. Keeping
    BY <1>5, <2>1 DEF KeptInv
  <2>3. op.kind # "close"
    BY <2>2 DEF Keeping
  <2>4. op' = Idle /\ buffered' = op.batch \o buffered
    BY <2>1, <2>3 DEF Fails, Rebuffered
  <2>5. Entries' = Entries
    <3>1. ElementsOf(buffered') = ElementsOf(op.batch) \cup ElementsOf(buffered)
      BY <1>1, <2>4, ElementsOfBoth
    <3>2. ElementsOf(op'.batch) = {}
      BY <1>2, ElementsOfEmpty
    <3> QED BY <3>1, <3>2 DEF Entries
  <2>6. op'.kind # "close" /\ op'.pc \notin {"log", "anchor"}
    BY <1>2, <2>4 DEF Idle
  <2> QED BY <2>2, <2>5, <2>6, MovedAbout
<1> QED BY <1>2, <1>4, <1>5 DEF KeptInv

(* A step that leaves the handle and its queue leaves what is kept. *)
LEMMA KeptAsItWas ==
  ASSUME KeptInv, UNCHANGED <<log, acts, buffered, op, phase>>
  PROVE  KeptInv'
BY DEF KeptInv, Keeping, Entries

(* A session opened does what its log holds. *)
LEMMA OpenKept == RecInv /\ KeptInv /\ Open => KeptInv'
<1> SUFFICES ASSUME RecInv, KeptInv, Open PROVE KeptInv'
  OBVIOUS
<1>1. /\ UNCHANGED <<log, buffered, op>> /\ phase = "closed" /\ phase' = "opened" /\ acts' = log
      /\ op = Idle /\ buffered = <<>>
  BY DEF Open, KeptInv
<1>2. Len(log) \in Nat
  BY EntriesAreEvents DEF RecInv
<1>3. Entries' = {}
  BY <1>1, ElementsOfEmpty DEF Entries, Idle
<1>4. op'.kind # "close" /\ op'.pc = "idle" /\ op'.batch = <<>>
  BY <1>1 DEF Idle
<1>5. Keeping'
  BY <1>1, <1>2, <1>3, <1>4 DEF Keeping
<1> QED BY <1>1, <1>4, <1>5 DEF KeptInv

(* What the session already did is done, and held by the append. *)
LEMMA SeedKept == RecInv /\ KeptInv /\ Seed => KeptInv'
<1> SUFFICES ASSUME RecInv, KeptInv, Seed PROVE KeptInv'
  OBVIOUS
<1>1. PICK a \in Acts : /\ acts' = Append(acts, a)
                        /\ op' = [pc |-> "store", kind |-> "append",
                                  batch |-> <<[seq |-> Len(acts), act |-> a]>>]
  BY DEF Seed
<1>2. UNCHANGED <<log, buffered>> /\ phase = "opened" /\ phase' = "opened" /\ op = Idle
  BY DEF Seed, disk
<1>3. Shapes /\ Keeping
  BY <1>2 DEF RecInv, KeptInv
<1> DEFINE e == [seq |-> Len(acts), act |-> a]
<1>4. ElementsOf(<<e>>) = {e}
  BY DEF ElementsOf
<1>5. Entries = ElementsOf(buffered)
  BY <1>2, ElementsOfEmpty DEF Entries, Idle
<1>6. Entries' = Entries \cup {e}
  <2>1. op'.batch = <<e>>
    BY <1>1
  <2> HIDE DEF e
  <2> QED BY <1>2, <1>4, <1>5, <2>1 DEF Entries
<1>7. op'.kind # "close" /\ op'.pc = "store"
  BY <1>1
<1>8. Keeping'
  BY <1>1, <1>2, <1>3, <1>6, <1>7, OneActMore
<1> QED BY <1>2, <1>7, <1>8 DEF KeptInv

LEMMA AnnounceKept == RecInv /\ KeptInv /\ Announce => KeptInv'
BY DEF Announce, disk, KeptInv, Keeping, Entries

LEMMA EnqueueKept == RecInv /\ KeptInv /\ Enqueue => KeptInv'
<1> SUFFICES ASSUME RecInv, KeptInv, Enqueue PROVE KeptInv'
  OBVIOUS
<1>1. PICK a \in Acts : /\ acts' = Append(acts, a)
                        /\ buffered' = Append(buffered, [seq |-> Len(acts), act |-> a])
  BY DEF Enqueue
<1>2. UNCHANGED <<log, op>> /\ phase = "live" /\ phase' = "live"
  BY DEF Enqueue, disk
<1>3. Shapes /\ Keeping /\ buffered \in Seq(Event) /\ Len(acts) \in Nat
  BY <1>2, EntriesAreEvents DEF RecInv, KeptInv
<1> DEFINE e == [seq |-> Len(acts), act |-> a]
<1>4. e \in Event
  BY <1>3 DEF Event
<1>5. Entries' = Entries \cup {e}
  <2>1. buffered' = Append(buffered, e)
    BY <1>1
  <2> HIDE DEF e
  <2>2. ElementsOf(buffered') = ElementsOf(buffered) \cup {e}
    BY <1>3, <1>4, <2>1, ElementsOfOneMore
  <2> QED BY <1>2, <2>2 DEF Entries
<1>6. Keeping'
  BY <1>1, <1>2, <1>3, <1>5, OneActMore DEF Keeping
<1> QED BY <1>2, <1>6 DEF KeptInv

LEMMA BeginKept ==
  ASSUME RecInv, KeptInv, NEW kind \in {"drain", "flush", "close"}, Begin(kind)
  PROVE  KeptInv'
<1>1. /\ op = Idle /\ phase \in {"opened", "live"}
      /\ op' = [pc |-> IF buffered = <<>> THEN "finish" ELSE "store",
                kind |-> kind, batch |-> buffered]
      /\ buffered' = <<>> /\ UNCHANGED <<log, acts>>
      /\ phase' = IF kind = "close" THEN "closing" ELSE "live"
  BY DEF Begin, disk
<1>2. Entries' = Entries
  BY <1>1, ElementsOfEmpty DEF Entries, Idle
<1>3. op'.pc \in {"finish", "store"} /\ (op'.pc = "finish" => op'.batch = <<>>) /\ op'.kind = kind
  BY <1>1
<1>4. Keeping
  BY <1>1 DEF KeptInv
<1>5. kind # "close" => Keeping'
  BY <1>1, <1>2, <1>3, <1>4, MovedAbout
<1> QED BY <1>1, <1>3, <1>5 DEF KeptInv

(* A batch accepted starts where the log ends. *)
LEMMA CommitKept == RecInv /\ KeptInv /\ Commit => KeptInv'
<1> SUFFICES ASSUME RecInv, KeptInv, Commit PROVE KeptInv'
  OBVIOUS
<1>1. /\ op.pc = "store" /\ Accepted /\ op' = [op EXCEPT !.pc = "log"]
      /\ UNCHANGED <<log, phase, acts, buffered>>
  BY DEF Commit
<1>2. op'.pc = "log" /\ op'.batch = op.batch /\ op'.kind = op.kind
  BY <1>1 DEF RecInv, Shapes
<1>3. Counted = Len(log)
  BY <1>1 DEF Accepted, Counted, RecInv, CursorTrue
<1>4. \A i \in 1 .. Len(op'.batch) : op'.batch[i].seq = Len(log) + i - 1
  BY <1>1, <1>2, <1>3 DEF Accepted
<1>5. Entries' = Entries
  BY <1>1, <1>2 DEF Entries
<1>6. phase # "closed"
  BY <1>1 DEF KeptInv, Idle
<1>7. Keeping => Keeping'
  <2> SUFFICES ASSUME Keeping PROVE Keeping'
    OBVIOUS
  <2>1. op'.kind # "close"
    BY <1>2 DEF Keeping
  <2> QED BY <1>1, <1>2, <1>4, <1>5, <2>1, MovedAbout
<1> QED BY <1>1, <1>2, <1>6, <1>7 DEF KeptInv

LEMMA CommitRefusedKept == RecInv /\ KeptInv /\ CommitRefused => KeptInv'
BY FailsKeeps DEF CommitRefused, disk

LEMMA InnerAppendFailsKept == RecInv /\ KeptInv /\ InnerAppendFails => KeptInv'
BY FailsKeeps DEF InnerAppendFails, disk

LEMMA AnchorFailsKept == RecInv /\ KeptInv /\ AnchorFails => KeptInv'
BY FailsKeeps DEF AnchorFails, disk

(* The acts of the batch are the session's next, so the log goes on being what the
   session did first. *)
LEMMA InnerAppendKept == RecInv /\ KeptInv /\ InnerAppend => KeptInv'
<1> SUFFICES ASSUME RecInv, KeptInv, InnerAppend PROVE KeptInv'
  OBVIOUS
<1>1. /\ op.pc = "log" /\ log' = log \o BatchActs
      /\ op' = IF op.kind = "append" THEN Idle ELSE [op EXCEPT !.pc = "anchor"]
      /\ UNCHANGED <<phase, acts, buffered>>
  BY DEF InnerAppend, BatchActs
<1>2. /\ log \in History /\ Len(log) \in Nat /\ Len(op.batch) \in Nat /\ Len(acts) \in Nat
      /\ BatchActs \in History /\ Len(BatchActs) = Len(op.batch)
      /\ \A i \in 1 .. Len(op.batch) : BatchActs[i] = op.batch[i].act
      /\ Entries \subseteq Event
  BY BatchHistory, EntriesAreEvents DEF RecInv, Shapes
<1> DEFINE b == BatchActs
<1>3. b \in History /\ Len(b) = Len(op.batch) /\ log' = log \o b
      /\ \A i \in 1 .. Len(op.batch) : b[i] = op.batch[i].act
  BY <1>1, <1>2
<1> HIDE DEF b
<1>4. /\ Len(log') = Len(log) + Len(op.batch)
      /\ \A n \in 1 .. Len(log) : log'[n] = log[n]
      /\ \A n \in 1 .. Len(log) + Len(op.batch) : n > Len(log) => log'[n] = b[n - Len(log)]
  <2> DEFINE u == log \o b
  <2>1. log \in Seq(Acts) /\ b \in Seq(Acts)
    BY <1>2, <1>3 DEF History
  <2>2. /\ Len(u) = Len(log) + Len(b)
        /\ \A n \in 1 .. Len(log) + Len(b) : u[n] = IF n <= Len(log) THEN log[n] ELSE b[n - Len(log)]
    BY <2>1, ConcatProperties
  <2>3. log' = u
    BY <1>3
  <2> HIDE DEF u
  <2>4. /\ Len(u) = Len(log) + Len(op.batch)
        /\ \A n \in 1 .. Len(log) : u[n] = log[n]
        /\ \A n \in 1 .. Len(log) + Len(op.batch) : n > Len(log) => u[n] = b[n - Len(log)]
    <3>1. Len(log) \in Nat /\ Len(op.batch) \in Nat /\ Len(b) = Len(op.batch)
      BY <1>2, <1>3
    <3> QED BY <2>2, <3>1
  <2> QED BY <2>3, <2>4
<1>5. /\ op'.pc \in {"idle", "anchor"}
      /\ op'.pc = "idle" => op'.batch = <<>> /\ op'.kind = "none"
      /\ op'.pc = "anchor" => op'.batch = op.batch /\ op'.kind = op.kind
  <2>1. CASE op.kind = "append"
    BY <1>1, <2>1 DEF Idle
  <2>2. CASE op.kind # "append"
    BY <1>1, <2>2 DEF RecInv, Shapes
  <2> QED BY <2>1, <2>2
<1>6. phase # "closed"
  BY <1>1 DEF KeptInv, Idle
<1>7. ASSUME Keeping PROVE Keeping'
  <2>1. ASSUME NEW i \in 1 .. Len(op.batch)
        PROVE  /\ op.batch[i] \in Entries /\ op.batch[i].seq = Len(log) + i - 1
               /\ Len(log) + i - 1 < Len(acts) /\ b[i] = acts[Len(log) + i]
    <3>1. op.batch[i] \in Entries
      BY DEF Entries, ElementsOf
    <3>2. op.batch[i].seq = Len(log) + i - 1
      BY <1>1, <1>7 DEF Keeping
    <3>3. op.batch[i].seq < Len(acts) /\ op.batch[i].act = acts[op.batch[i].seq + 1]
      BY <1>7, <3>1 DEF Keeping
    <3>4. (Len(log) + i - 1) + 1 = Len(log) + i
      BY <1>2
    <3> QED BY <1>3, <3>1, <3>2, <3>3, <3>4
  <2>2. Len(log') <= Len(acts')
    <3>1. CASE Len(op.batch) = 0
      BY <1>1, <1>2, <1>4, <1>7, <3>1 DEF Keeping
    <3>2. CASE Len(op.batch) # 0
      <4>1. Len(op.batch) \in 1 .. Len(op.batch)
        BY <1>2, <3>2
      <4>2. Len(log) + Len(op.batch) - 1 < Len(acts)
        BY <2>1, <4>1
      <4> QED BY <1>1, <1>2, <1>4, <4>2
    <3> QED BY <3>1, <3>2
  <2>3. ASSUME NEW n \in 1 .. Len(log') PROVE log'[n] = acts'[n]
    <3>1. CASE n <= Len(log)
      BY <1>1, <1>2, <1>4, <1>7, <3>1 DEF Keeping
    <3>2. CASE n > Len(log)
      <4>1. n - Len(log) \in 1 .. Len(op.batch) /\ Len(log) + (n - Len(log)) = n
        BY <1>2, <1>4, <3>2
      <4>2. b[n - Len(log)] = acts[n]
        BY <2>1, <4>1
      <4> QED BY <1>1, <1>4, <3>2, <4>2
    <3> QED BY <1>2, <1>4, <3>1, <3>2
  <2>4. ElementsOf(op'.batch) \subseteq ElementsOf(op.batch)
    BY <1>5, ElementsOfEmpty
  <2>5. Entries' \subseteq Entries
    BY <1>1, <2>4 DEF Entries
  <2>6. \A e \in Entries' : e.seq < Len(acts') /\ e.act = acts'[e.seq + 1]
    BY <1>1, <1>7, <2>5 DEF Keeping
  <2>7. ASSUME NEW n \in Len(log') .. (Len(acts') - 1) PROVE \E e \in Entries' : e.seq = n
    <3>1. n \in Len(log) .. (Len(acts) - 1) /\ n >= Len(log) + Len(op.batch)
      BY <1>1, <1>2, <1>4
    <3>2. PICK e \in Entries : e.seq = n
      BY <1>7, <3>1 DEF Keeping
    <3>3. e \notin ElementsOf(op.batch)
      <4>1. \A i \in 1 .. Len(op.batch) : op.batch[i].seq < Len(log) + Len(op.batch)
        BY <1>2, <2>1
      <4> QED BY <1>2, <3>1, <3>2, <4>1 DEF ElementsOf
    <3>4. e \in Entries'
      BY <1>1, <3>3 DEF Entries
    <3> QED BY <3>2, <3>4
  <2>8. op'.pc = "anchor" => \A i \in 1 .. Len(op'.batch) : op'.batch[i].seq < Len(log')
    BY <1>2, <1>4, <1>5, <2>1
  <2>9. op'.kind # "close" /\ op'.pc # "log"
    BY <1>5, <1>7 DEF Keeping
  <2> QED BY <2>2, <2>3, <2>6, <2>7, <2>8, <2>9 DEF Keeping
<1> QED BY <1>1, <1>5, <1>6, <1>7 DEF KeptInv

(* What is anchored is in the log, and held no more. *)
LEMMA AnchorKept == RecInv /\ KeptInv /\ Anchor => KeptInv'
<1> SUFFICES ASSUME RecInv, KeptInv, Anchor PROVE KeptInv'
  OBVIOUS
<1>1. /\ op.pc = "anchor" /\ UNCHANGED <<log, phase, acts, buffered>>
      /\ op' = IF op.kind = "drain" THEN Idle
               ELSE [op EXCEPT !.pc = "finish", !.batch = <<>>]
  BY DEF Anchor
<1>2. /\ Len(log) \in Nat /\ Len(op.batch) \in Nat /\ Entries \subseteq Event
  BY EntriesAreEvents DEF RecInv
<1>3. /\ op'.pc \in {"idle", "finish"} /\ op'.batch = <<>> /\ op'.kind \in {"none", op.kind}
  <2>1. CASE op.kind = "drain"
    BY <1>1, <2>1 DEF Idle
  <2>2. CASE op.kind # "drain"
    BY <1>1, <2>2 DEF RecInv, Shapes
  <2> QED BY <2>1, <2>2
<1>4. phase # "closed"
  BY <1>1 DEF KeptInv, Idle
<1>5. Entries' = ElementsOf(buffered)
  BY <1>1, <1>3, ElementsOfEmpty DEF Entries
<1>6. ASSUME Keeping PROVE Keeping'
  <2>1. \A n \in Len(log') .. (Len(acts') - 1) : \E e \in Entries' : e.seq = n
    <3> SUFFICES ASSUME NEW n \in Len(log) .. (Len(acts) - 1)
                 PROVE  \E e \in ElementsOf(buffered) : e.seq = n
      BY <1>1, <1>5
    <3>1. PICK e \in Entries : e.seq = n
      BY <1>6 DEF Keeping
    <3>2. e \notin ElementsOf(op.batch)
      <4>1. \A i \in 1 .. Len(op.batch) : op.batch[i].seq < Len(log)
        BY <1>1, <1>6 DEF Keeping
      <4> QED BY <1>2, <3>1, <4>1 DEF ElementsOf
    <3> QED BY <3>1, <3>2 DEF Entries
  <2>2. \A e \in Entries' : e.seq < Len(acts') /\ e.act = acts'[e.seq + 1]
    BY <1>1, <1>5, <1>6 DEF Keeping, Entries
  <2>3. Len(log') <= Len(acts') /\ \A n \in 1 .. Len(log') : log'[n] = acts'[n]
    BY <1>1, <1>6 DEF Keeping
  <2>4. op'.kind # "close" /\ op'.pc \notin {"log", "anchor"}
    BY <1>3, <1>6 DEF Keeping
  <2> QED BY <2>1, <2>2, <2>3, <2>4 DEF Keeping
<1> QED BY <1>1, <1>3, <1>4, <1>6 DEF KeptInv

LEMMA FinishKept == RecInv /\ KeptInv /\ Finish => KeptInv'
<1> SUFFICES ASSUME RecInv, KeptInv, Finish PROVE KeptInv'
  OBVIOUS
<1>1. op.pc = "finish" /\ op' = Idle /\ log' = log /\ op.batch = <<>>
  BY DEF Finish, KeptInv
<1>2. op'.pc = "idle" /\ op'.kind = "none" /\ op'.batch = <<>>
  BY <1>1 DEF Idle
<1>3. CASE op.kind = "close"
  <2>1. phase' = "closed" /\ buffered' = <<>>
    BY <1>3 DEF Finish
  <2> QED BY <1>1, <1>2, <2>1 DEF KeptInv
<1>4. CASE op.kind # "close"
  <2>1. UNCHANGED <<phase, acts, buffered>>
    BY <1>4 DEF Finish
  <2>2. phase # "closed"
    BY <1>1 DEF KeptInv, Idle
  <2>3. Entries' = Entries
    BY <1>1, <1>2, <2>1 DEF Entries
  <2>4. Keeping => Keeping'
    BY <1>1, <1>2, <2>1, <2>3, MovedAbout
  <2> QED BY <1>2, <2>1, <2>2, <2>4 DEF KeptInv
<1> QED BY <1>3, <1>4

LEMMA CrashKept == Crash => KeptInv'
<1> SUFFICES ASSUME Crash PROVE KeptInv'
  OBVIOUS
<1>1. phase' = "closed" /\ op' = Idle /\ buffered' = <<>>
  BY DEF Crash
<1>2. op'.batch = <<>>
  BY <1>1 DEF Idle
<1> QED BY <1>1, <1>2 DEF KeptInv

LEMMA KeptInit == Init => KeptInv
BY DEF Init, KeptInv, Idle

LEMMA KeptStep == RecInv /\ KeptInv /\ [Next]_vars => KeptInv'
<1> SUFFICES ASSUME RecInv, KeptInv, [Next]_vars PROVE KeptInv'
  OBVIOUS
<1>1. CASE Open
  BY <1>1, OpenKept
<1>2. CASE Seed
  BY <1>2, SeedKept
<1>3. CASE Announce
  BY <1>3, AnnounceKept
<1>4. CASE Enqueue
  BY <1>4, EnqueueKept
<1>5. CASE \E kind \in {"drain", "flush", "close"} : Begin(kind)
  BY <1>5, BeginKept
<1>6. CASE Commit
  BY <1>6, CommitKept
<1>7. CASE CommitRefused
  BY <1>7, CommitRefusedKept
<1>8. CASE InnerAppend
  BY <1>8, InnerAppendKept
<1>9. CASE InnerAppendFails
  BY <1>9, InnerAppendFailsKept
<1>10. CASE Anchor
  BY <1>10, AnchorKept
<1>11. CASE AnchorFails
  BY <1>11, AnchorFailsKept
<1>12. CASE Finish
  BY <1>12, FinishKept
<1>13. CASE ReadBegin \/ ReadEnd
  <2>1. UNCHANGED <<log, acts, buffered, op, phase>>
    BY <1>13 DEF ReadBegin, ReadEnd, disk
  <2> QED BY <2>1, KeptAsItWas
<1>14. CASE Crash
  BY <1>14, CrashKept
<1>15. CASE UNCHANGED vars
  <2>1. UNCHANGED <<log, acts, buffered, op, phase>>
    BY <1>15 DEF vars
  <2> QED BY <2>1, KeptAsItWas
<1> QED
  BY <1>1, <1>2, <1>3, <1>4, <1>5, <1>6, <1>7, <1>8, <1>9, <1>10, <1>11, <1>12, <1>13,
     <1>14, <1>15 DEF Next

(* What is held, and what the log is to the session's acts. *)
THEOREM KeptInvariant == Spec => []KeptInv
<1>1. Init => KeptInv
  BY KeptInit
<1>2. RecInv /\ KeptInv /\ [Next]_vars => KeptInv'
  BY KeptStep
<1> QED BY <1>1, <1>2, RecordInvariant, PTL DEF Spec

(* No act of a live session is lost, repeated or put in another's place, whatever
   appends and anchors fail (provider.js:109-129). *)
THEOREM ActsAlwaysKept == Spec => []ActsAreKept
<1>1. RecInv /\ KeptInv => ActsAreKept
  <2> SUFFICES ASSUME RecInv, KeptInv, phase \in {"opened", "live"}
               PROVE  /\ Len(log) <= Len(acts) /\ log = SubSeq(acts, 1, Len(log))
                      /\ \A n \in Len(log) .. (Len(acts) - 1) :
                           [seq |-> n, act |-> acts[n + 1]] \in Held
    BY DEF ActsAreKept
  <2>1. Keeping /\ log \in History /\ acts \in History
    BY DEF KeptInv, RecInv, Shapes
  <2>2. Len(log) \in Nat /\ Len(acts) \in Nat /\ Entries \subseteq Event
    BY EntriesAreEvents DEF RecInv
  <2>3. Len(log) <= Len(acts) /\ \A n \in 1 .. Len(log) : log[n] = acts[n]
    BY <2>1 DEF Keeping
  <2>4. Len(log) \in 0 .. Len(acts)
    BY <2>2, <2>3
  <2>5. log = SubSeq(acts, 1, Len(log))
    <3>1. /\ SubSeq(acts, 1, Len(log)) \in History /\ Len(SubSeq(acts, 1, Len(log))) = Len(log)
          /\ \A i \in 1 .. Len(log) : SubSeq(acts, 1, Len(log))[i] = acts[i]
      BY <2>1, <2>4, Prefixes
    <3> QED BY <2>1, <2>3, <3>1, SeqEqual DEF History
  <2>6. Held = Entries
    BY <2>1 DEF Keeping, Held, Entries, ElementsOf
  <2>7. ASSUME NEW n \in Len(log) .. (Len(acts) - 1)
        PROVE  [seq |-> n, act |-> acts[n + 1]] \in Held
    <3>1. PICK e \in Entries : e.seq = n
      BY <2>1 DEF Keeping
    <3>2. e \in Event /\ e.act = acts[n + 1]
      BY <2>1, <2>2, <3>1 DEF Keeping
    <3>3. e = [seq |-> n, act |-> acts[n + 1]]
      BY <3>1, <3>2 DEF Event
    <3> QED BY <2>6, <3>1, <3>3
  <2> QED BY <2>3, <2>5, <2>7
<1> QED BY <1>1, RecordInvariant, KeptInvariant, PTL
=============================================================================
