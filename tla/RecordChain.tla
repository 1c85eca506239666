----------------------------- MODULE RecordChain -----------------------------
(***************************************************************************)
(* The hash-chained session record (packages/record/src).  One session,    *)
(* its log (the host's persistence, external), the sidecar of links the    *)
(* chain commits before every append (store.js, index.js), the sidecar of  *)
(* signed anchors (anchors.js), and the provider's buffering writer        *)
(* (provider.js) with its queue of drains, flushes, seeds and the close.   *)
(*                                                                         *)
(* A hash is modelled by what it commits to: linkHash(prev, seq, event) is *)
(* the history of acts up to and including that event, and genesisHash is  *)
(* the empty history, so two links are equal exactly when the histories    *)
(* are.  The signature is left out: the anchor is the record that is       *)
(* signed, and what the next anchor chains to is its place in the file.    *)
(***************************************************************************)
EXTENDS Integers, Sequences, TLC

CONSTANTS Acts,         \* what a session can do at one seq
          MaxActs,      \* bound: acts in a session's record
          MaxLives,     \* bound: times the session is opened for writing
          MaxFailures,  \* bound: appends and anchors that fail
          Faults,       \* the faults this instance meets, among the five below
          None

FaultKinds == {"crash", "power", "torn", "log", "anchor"}

ASSUME RecordBounds == /\ MaxActs \in Nat \ {0}
                       /\ MaxLives \in Nat /\ MaxFailures \in Nat
ASSUME FaultsKnown == Faults \subseteq FaultKinds
ASSUME NoneIsNoValue == None \notin Int

VARIABLES
  log,       \* the session's events, as the host's persistence stores them
  synced,    \* how many of them a flush made durable
  links,     \* the .chain sidecar, as load() reads it: seq -> hash
  torn,      \* the sidecar ends in half a line
  anchors,   \* the .chain.sigs sidecar
  phase,     \* the write handle: closed | opened | live | closing
  acts,      \* what the session did, in memory
  buffered,  \* events handed to the writer and not drained: <<[seq, act]>>
  op,        \* the operation at the head of the queue
  cursor,    \* the chained handle's idea of the log's length, or None
  lastAnchor,\* what the next anchor chains to, or None when not read yet
  reader,    \* a read between inner.read and verifySlice, or None
  lives, failures,
  met        \* ghost: "torn" and "anchor", once such a fault was met

disk == <<log, synced, links, torn, anchors>>
bounds == <<lives, failures, met>>
vars == <<log, synced, links, torn, anchors, phase, acts, buffered, op,
          cursor, lastAnchor, reader, lives, failures, met>>

\* One act is as good as another.
ActSymmetry == Permutations(Acts)

Seqs == 0 .. (MaxActs - 1)
History == Seq(Acts)
Event == [seq : Nat, act : Acts]
Idle == [pc |-> "idle", kind |-> "none", batch |-> <<>>]

----------------------------------------------------------------------------
(* chain.js and store.js *)

\* headAt(seq) of index.js is defined: the link a batch would continue.
HeadKnown(seq) == seq = 0 \/ seq - 1 \in DOMAIN links
HeadAt(seq) == IF seq = 0 THEN <<>> ELSE links[seq - 1]

\* extendChain: the links of a batch that starts at `first` after `prev`.
ExtendChain(prev, first, batch) ==
  [s \in first .. (first + Len(batch) - 1) |->
     prev \o [i \in 1 .. (s - first + 1) |-> batch[i].act]]

\* Mutants: the first line of a seq wins; the sidecar is rewritten.
FirstLineWins(fresh, first) ==
  [s \in DOMAIN links \cup DOMAIN fresh |->
     IF s \in DOMAIN links THEN links[s] ELSE fresh[s]]
Overwritten(fresh, first) == fresh

\* load() after an append: the last line of a seq wins, and a first line glued
\* to half a line left by a crash is read as neither.
Written(fresh, first) ==
  LET read == DOMAIN fresh \ (IF torn THEN {first} ELSE {})
  IN [s \in DOMAIN links \cup read |-> IF s \in read THEN fresh[s] ELSE links[s]]

LastSeq == IF DOMAIN links = {} THEN -1
           ELSE CHOOSE s \in DOMAIN links : \A t \in DOMAIN links : t <= s

\* verifySlice: an empty slice verifies; any other needs its anchor, a link
\* for every event, and every event hashing to its link.
VerifySlice(from, events) ==
  events # <<>> =>
    /\ HeadKnown(from)
    /\ \A i \in 1 .. Len(events) :
         /\ from + i - 1 \in DOMAIN links
         /\ links[from + i - 1] = HeadAt(from) \o SubSeq(events, 1, i)

\* The head a verifier keeps: that of the last link.
ChainHead == HeadAt(LastSeq + 1)

\* What the auditor asks of a whole log (checkChain): a link for every event,
\* which the event before and its own bytes make.
ChainConforms == VerifySlice(0, log)

----------------------------------------------------------------------------
(* anchors.js *)

\* lastAnchorOf: kept in memory, read back from the sidecar when it is not.
LastAnchorOf == IF lastAnchor = None THEN Len(anchors) ELSE lastAnchor
SignAnchor(upTo, head) == [upToSeq |-> upTo, headHash |-> head, prev |-> LastAnchorOf]
WriteAnchor(upTo, head) ==
  /\ anchors' = Append(anchors, SignAnchor(upTo, head))
  /\ lastAnchor' = Len(anchors) + 1

----------------------------------------------------------------------------
(* the handle *)

Init ==
  /\ log = <<>> /\ synced = 0 /\ links = [s \in {} |-> <<>>] /\ torn = FALSE
  /\ anchors = <<>>
  /\ phase = "closed" /\ acts = <<>> /\ buffered = <<>> /\ op = Idle
  /\ cursor = None /\ lastAnchor = None /\ reader = None
  /\ lives = 0 /\ failures = 0 /\ met = {}

\* adopt(): a write handle on a session.  The first one signs the genesis
\* anchor, a later one reads what the last anchor was; the host then reads the
\* whole record back, and a record that does not verify is not opened.
Open ==
  /\ phase = "closed" /\ lives < MaxLives
  /\ VerifySlice(0, log)
  /\ lives' = lives + 1
  /\ phase' = "opened" /\ acts' = log /\ cursor' = None
  /\ IF anchors = <<>> THEN WriteAnchor(-1, <<>>)
     ELSE /\ lastAnchor' = LastAnchorOf
          /\ UNCHANGED anchors
  /\ UNCHANGED <<log, synced, links, torn, buffered, op, reader, failures, met>>

\* handle.append by the host, before the session is announced: what the
\* session already did is appended directly, with no anchor.
Seed ==
  /\ phase = "opened" /\ op = Idle /\ Len(acts) < MaxActs
  /\ \E a \in Acts :
       /\ acts' = Append(acts, a)
       /\ op' = [pc |-> "store", kind |-> "append",
                 batch |-> <<[seq |-> Len(acts), act |-> a]>>]
  /\ UNCHANGED <<disk, phase, buffered, cursor, lastAnchor, reader, bounds>>

Announce ==
  /\ phase = "opened" /\ op = Idle
  /\ phase' = "live"
  /\ UNCHANGED <<disk, acts, buffered, op, cursor, lastAnchor, reader, bounds>>

\* session/event: enqueue; a drain may be running.
Enqueue ==
  /\ phase = "live" /\ Len(acts) < MaxActs
  /\ \E a \in Acts :
       /\ acts' = Append(acts, a)
       /\ buffered' = Append(buffered, [seq |-> Len(acts), act |-> a])
  /\ UNCHANGED <<disk, phase, op, cursor, lastAnchor, reader, bounds>>

\* The next operation of the queue: a drain by the timer, a flush, the close.
\* Each drains first, and the drain takes the whole buffer.
Begin(kind) ==
  /\ op = Idle /\ (phase = "live" \/ (phase = "opened" /\ kind = "close"))
  /\ kind = "drain" => buffered # <<>>
  /\ phase' = IF kind = "close" THEN "closing" ELSE "live"
  /\ op' = [pc |-> IF buffered = <<>> THEN "finish" ELSE "store",
            kind |-> kind, batch |-> buffered]
  /\ buffered' = <<>>
  /\ UNCHANGED <<disk, acts, cursor, lastAnchor, reader, bounds>>

\* A mutant: the first of the failed batch is taken for stored.
BatchDropped == IF op.kind = "append" THEN buffered ELSE Tail(op.batch) \o buffered

\* A failing drain puts its batch back before whatever was enqueued since; a
\* failing close still closes, and a failing seed makes the host give up.
Rebuffered == IF op.kind = "append" THEN buffered ELSE op.batch \o buffered
Fails ==
  /\ buffered' = Rebuffered
  /\ op' = IF op.kind \in {"append", "close"}
           THEN [op EXCEPT !.pc = "finish", !.kind = "close", !.batch = <<>>]
           ELSE Idle
  /\ phase' = IF op.kind = "append" THEN "closing" ELSE phase

----------------------------------------------------------------------------
(* chainedHandle.append: commit the links, then delegate *)

FirstSeq == op.batch[1].seq
Fresh == ExtendChain(HeadAt(FirstSeq), FirstSeq, op.batch)
\* The cursor after `cursor ??= read(0).length`, a read that verifies.
Counted == IF cursor = None /\ VerifySlice(0, log) THEN Len(log) ELSE cursor
\* There is a link to continue, the log verifies when it has to be read again,
\* and the batch continues it seq by seq (assertContiguous).
Accepted ==
  /\ HeadKnown(FirstSeq)
  /\ Counted # None
  /\ \A i \in 1 .. Len(op.batch) : op.batch[i].seq = Counted + i - 1

Commit ==
  /\ op.pc = "store" /\ Accepted
  /\ links' = Written(Fresh, FirstSeq) /\ torn' = FALSE
  /\ cursor' = Counted
  /\ op' = [op EXCEPT !.pc = "log"]
  /\ UNCHANGED <<log, synced, anchors, phase, acts, buffered, lastAnchor,
                 reader, bounds>>

CommitRefused ==
  /\ op.pc = "store" /\ ~Accepted
  /\ cursor' = IF HeadKnown(FirstSeq) THEN Counted ELSE cursor
  /\ Fails
  /\ UNCHANGED <<disk, acts, lastAnchor, reader, bounds>>

InnerAppend ==
  /\ op.pc = "log"
  /\ log' = log \o [i \in 1 .. Len(op.batch) |-> op.batch[i].act]
  /\ cursor' = cursor + Len(op.batch)
  /\ op' = IF op.kind = "append" THEN Idle ELSE [op EXCEPT !.pc = "anchor"]
  /\ UNCHANGED <<synced, links, torn, anchors, phase, acts, buffered,
                 lastAnchor, reader, bounds>>

\* The backend refuses the batch and stores nothing of it.
InnerAppendFails ==
  /\ op.pc = "log" /\ "log" \in Faults /\ failures < MaxFailures
  /\ failures' = failures + 1
  /\ cursor' = None
  /\ Fails
  /\ UNCHANGED <<disk, acts, lastAnchor, reader, lives, met>>

\* drain() after inner.append: sign the head the sidecar ends in.
Anchor ==
  /\ op.pc = "anchor"
  /\ WriteAnchor(LastSeq, ChainHead)
  /\ op' = IF op.kind = "drain" THEN Idle
           ELSE [op EXCEPT !.pc = "finish", !.batch = <<>>]
  /\ UNCHANGED <<log, synced, links, torn, phase, acts, buffered, cursor,
                 reader, bounds>>

AnchorFails ==
  /\ op.pc = "anchor" /\ "anchor" \in Faults /\ failures < MaxFailures
  /\ failures' = failures + 1 /\ met' = met \cup {"anchor"}
  /\ Fails
  /\ UNCHANGED <<disk, acts, cursor, lastAnchor, reader, lives>>

\* inner.flush, or inner.close: the handle is gone and so is its buffer.
Finish ==
  /\ op.pc = "finish"
  /\ op' = Idle
  /\ synced' = IF op.kind = "flush" THEN Len(log) ELSE synced
  /\ IF op.kind = "close"
     THEN phase' = "closed" /\ acts' = <<>> /\ buffered' = <<>> /\ cursor' = None
     ELSE UNCHANGED <<phase, acts, buffered, cursor>>
  /\ UNCHANGED <<log, links, torn, anchors, lastAnchor, reader, bounds>>

----------------------------------------------------------------------------
(* reads by other handles: the backend is read, then the links *)

ReadBegin ==
  /\ reader = None
  /\ \E from \in 0 .. Len(log) :
       reader' = [from |-> from, events |-> SubSeq(log, from + 1, Len(log))]
  /\ UNCHANGED <<disk, phase, acts, buffered, op, cursor, lastAnchor, bounds>>

ReadEnd ==
  /\ reader # None
  /\ reader' = None
  /\ UNCHANGED <<disk, phase, acts, buffered, op, cursor, lastAnchor, bounds>>

----------------------------------------------------------------------------
(* the process dies; a power loss also takes events no flush made durable *)

\* The links a death in the middle of store.append leaves: the first k lines,
\* and half of the next one.
LinksAfterDeath ==
  \/ op.pc # "store" /\ UNCHANGED <<links, torn>>
  \/ /\ op.pc = "store"
     /\ \/ UNCHANGED <<links, torn>>
        \/ /\ Accepted
           /\ \E k \in 0 .. Len(op.batch) :
                /\ links' = IF k = 0 THEN links
                            ELSE Written([s \in FirstSeq .. (FirstSeq + k - 1) |-> Fresh[s]],
                                         FirstSeq)
                /\ torn' \in IF "torn" \in Faults /\ k < Len(op.batch)
                             THEN {TRUE} ELSE {torn /\ k = 0}

\* The log: a prefix of the batch being appended; after a power loss any
\* prefix of it that holds what was flushed.
LogAfterDeath ==
  LET whole == IF op.pc = "log"
               THEN log \o [i \in 1 .. Len(op.batch) |-> op.batch[i].act] ELSE log
      least == IF "power" \in Faults THEN synced ELSE Len(log)
  IN \E n \in least .. Len(whole) : log' = SubSeq(whole, 1, n)

Crash ==
  /\ "crash" \in Faults
  /\ LinksAfterDeath /\ LogAfterDeath
  /\ met' = IF torn' THEN met \cup {"torn"} ELSE met
  /\ phase' = "closed" /\ acts' = <<>> /\ buffered' = <<>> /\ op' = Idle
  /\ cursor' = None /\ lastAnchor' = None /\ reader' = None
  /\ UNCHANGED <<synced, anchors, lives, failures>>

Next ==
  \/ Open \/ Seed \/ Announce \/ Enqueue
  \/ \E kind \in {"drain", "flush", "close"} : Begin(kind)
  \/ Commit \/ CommitRefused \/ InnerAppend \/ InnerAppendFails
  \/ Anchor \/ AnchorFails \/ Finish
  \/ ReadBegin \/ ReadEnd
  \/ Crash

Spec == Init /\ [][Next]_vars

----------------------------------------------------------------------------
(* Properties *)

\* The record's state has the shapes its files and handles have.
RecordTypeOK ==
  /\ log \in History /\ synced \in 0 .. Len(log) /\ Len(log) <= MaxActs
  /\ DOMAIN links \subseteq Seqs
  /\ \A s \in DOMAIN links : links[s] \in History /\ Len(links[s]) = s + 1
  /\ torn \in BOOLEAN
  /\ anchors \in Seq([upToSeq : Seqs \cup {-1}, headHash : History, prev : Nat])
  /\ phase \in {"closed", "opened", "live", "closing"}
  /\ acts \in History /\ Len(acts) <= MaxActs
  /\ buffered \in Seq(Event)
  /\ op.pc \in {"idle", "store", "log", "anchor", "finish"}
  /\ op.kind \in {"none", "append", "drain", "flush", "close"}
  /\ op.batch \in Seq(Event)
  /\ cursor \in Nat \cup {None} /\ lastAnchor \in Nat \cup {None}
  /\ reader = None \/ reader \in [from : Nat, events : History]
  /\ lives \in 0 .. MaxLives /\ failures \in 0 .. MaxFailures
  /\ met \subseteq Faults

\* The log is evidence: whatever appends failed and wherever the process died,
\* every event of the log has the link it hashes to, so the session reads
\* back; as long as no death cut a line of the sidecar in two (store.js:15-21).
LogIsEvidence == "torn" \notin met => ChainConforms

\* A read that took its events before other appends committed theirs still
\* verifies against the links it loads afterwards (index.js:82-86): a reader
\* beside a writer never raises a false alarm.
ReadsVerify ==
  "torn" \notin met /\ reader # None => VerifySlice(reader.from, reader.events)

\* No act of a live session is lost, repeated or put in another's place: the
\* log is a prefix of the session's acts, and every act past it is held by the
\* running operation or the buffer, under its own seq (provider.js:109-129).
Held == IF op.kind = "close" /\ op.pc = "finish" THEN {}
        ELSE {op.batch[i] : i \in 1 .. Len(op.batch)}
             \cup {buffered[i] : i \in 1 .. Len(buffered)}
ActsAreKept ==
  phase \in {"opened", "live"} =>
    /\ Len(log) <= Len(acts) /\ log = SubSeq(acts, 1, Len(log))
    /\ \A n \in Len(log) .. (Len(acts) - 1) :
         [seq |-> n, act |-> acts[n + 1]] \in Held

=============================================================================
