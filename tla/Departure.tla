------------------------------ MODULE Departure ------------------------------
(***************************************************************************)
(* Exit and succession (packages/exit/src) over a delegation: a Member may *)
(* declare its departure, which is never refused; what it owes is read     *)
(* from the services that hold it and put on a record as settled by the    *)
(* handover or as left owed; and closing an agent that declared nothing is *)
(* recorded as a violation, with all it owes.                              *)
(*                                                                         *)
(* Two services are read: the asks the approval gate waits on, filed under *)
(* the asker's root, which is its parent when it has one; and the runs the *)
(* child-state registry has as running.  Restitution, the third line of    *)
(* the ledger, is left out: nothing discharges what the judicature orders. *)
(* All of it is in memory.                                                 *)
(***************************************************************************)
EXTENDS Delegation, TLC

CONSTANTS MaxAsks,        \* bound: asks raised in all
          MaxDeclared     \* bound: declarations in all

VARIABLES
  asks,      \* the approval store's pending map, by number: the root, or NoAgent
  declared,  \* exit's declarations, by agent: the last record, or NoAgent
  departed,  \* agents this process disposed of
  departures \* exit's records

exitVars == <<asks, declared, departed, departures>>
allVars == <<delegationVars, exitVars>>

\* What no property tells apart.
Alike == Permutations(Agents \ {Root}) \cup Permutations(Kinds)

RootOf(a) == IF header[a].parent = NoAgent THEN a ELSE header[a].parent

----------------------------------------------------------------------------
(* ledger.js *)

PendingGatesOf(a) == {[kind |-> "gate", ref |-> n] : n \in {n \in DOMAIN asks : asks[n] = a}}

InFlightOf(a) == {[kind |-> "child", ref |-> records[r].child] :
                    r \in {r \in DOMAIN records : /\ records[r].parent = a
                                                  /\ records[r].state = "running"}}

ObligationLedger(a) == PendingGatesOf(a) \cup InFlightOf(a)

\* A mutant: an assumption by nobody leaves both lists.
UnnamedOrNothing(debts, handover) == {d \in debts : handover[d] = "nothing"}

\* What a handover names for a ref: a disposition that settles it (discharged, or
\* assumed by somebody), an assumption by nobody, or nothing.
Orphans(debts, handover) == {d \in debts : handover[d] # "settles"}

SettleLedger(debts, handover) ==
  [settled |-> {d \in debts : handover[d] = "settles"}, orphaned |-> Orphans(debts, handover)]

\* A record is stamped with the runs and asks there had been by then.
DepartureRecord(a, ledger) ==
  [subject |-> a, settled |-> ledger.settled,
   orphaned |-> ledger.orphaned, at |-> [runs |-> Len(runs), asks |-> Len(asks)]]

----------------------------------------------------------------------------
InitExit == /\ DelegationInit
            /\ asks = Nothing
            /\ declared = [a \in Agents |-> NoAgent]
            /\ departed = {} /\ departures = Nothing

\* The gate (external): an agent raises an ask, and one is settled.
Ask(a) == /\ a \in live /\ Len(asks) < MaxAsks
          /\ asks' = Append(asks, RootOf(a))
          /\ UNCHANGED <<delegationVars, declared, departed, departures>>

Answer(n) == /\ asks[n] # NoAgent
             /\ asks' = [asks EXCEPT ![n] = NoAgent]
             /\ UNCHANGED <<delegationVars, declared, departed, departures>>

\* declare, by the Member's own request_termination or for a Principal: never
\* refused, on whatever ground it gives; the last one stands. The top-level agent
\* stays in this model.
DeclareDeparture(a) ==
  /\ a \in live \ {Root} /\ Len(departures) < MaxDeclared
  /\ \E handover \in [ObligationLedger(a) -> {"settles", "by nobody", "nothing"}] :
       LET rec == DepartureRecord(a, SettleLedger(ObligationLedger(a), handover))
       IN  /\ departures' = Append(departures, rec)
           /\ declared' = [declared EXCEPT ![a] = rec]
  /\ UNCHANGED <<delegationVars, asks, departed>>

\* agent/disposed: with no declaration on file, a violation and the whole ledger.
Undeclared(a) ==
  DepartureRecord(a, SettleLedger(ObligationLedger(a), [d \in ObligationLedger(a) |-> "nothing"]))

Dispose(a) ==
  /\ Leave(a)
  /\ departed' = departed \cup {a}
  /\ departures' = IF declared[a] # NoAgent THEN departures ELSE Append(departures, Undeclared(a))
  /\ UNCHANGED <<asks, declared>>

\* The process restarts: every service's memory is a new one.
RestartAll == /\ Restart
              /\ asks' = Nothing /\ departures' = Nothing /\ departed' = {}
              /\ declared' = [a \in Agents |-> NoAgent]

NextExit ==
  \/ \E a \in Agents : Ask(a) \/ DeclareDeparture(a) \/ Dispose(a)
  \/ \E n \in DOMAIN asks : Answer(n)
  \/ RestartAll
  \/ /\ UNCHANGED exitVars
     /\ \/ \E p \in live, c \in Agents \ {Root} : Start(p, c)
        \/ \E r \in DOMAIN runs : End(r)
        \/ \E a \in live, i \in DOMAIN scopes : Withdraw(a, i)
        \/ \E a \in live, i \in DOMAIN scopes, keep \in SUBSET Kinds : Narrow(a, i, keep)

SpecExit == InitExit /\ [][NextExit]_allVars

----------------------------------------------------------------------------
(* Properties *)

Recorded(rec, d) == d \in rec.settled \/ d \in rec.orphaned

\* R-12: a Member that is gone left a record that names every child that still runs
\* for it and every ask that still waits for it, from before the record was made:
\* whatever the handover said, and whether or not it declared.
DebtsOutliveTheDebtor ==
  \A a \in departed :
    \E i \in DOMAIN departures :
      LET rec == departures[i]
      IN  /\ rec.subject = a
          /\ \A r \in DOMAIN records :
               r <= rec.at.runs /\ records[r].parent = a /\ records[r].state = "running" =>
                 Recorded(rec, [kind |-> "child", ref |-> records[r].child])
          /\ \A n \in DOMAIN asks :
               n <= rec.at.asks /\ asks[n] = a =>
                 Recorded(rec, [kind |-> "gate", ref |-> n])
=============================================================================
