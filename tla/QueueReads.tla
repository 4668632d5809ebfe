------------------------------ MODULE QueueReads ------------------------------
(***************************************************************************)
(* The two readers of the jobs of a queue that take several reads, over    *)
(* lists that change under them: the pending scan of a trace and the       *)
(* search.  A behaviour serves one request.                                *)
(***************************************************************************)
EXTENDS PendingScan, ListSearch

vars == <<listVars, scanVars, searchVars>>

Idle == search = NoSearch /\ asked = 0

Init == ListsInit /\ ScanInit /\ SearchInit

\* A step of the reader at work, or the start of one.
Scanning == search = NoSearch /\ ScanNext /\ UNCHANGED <<listVars, searchVars>>
Searching == asked = 0 /\ SearchNext /\ UNCHANGED <<listVars, scanVars>>

Changing ==
  /\ ~Idle
  /\ \E q \in ToSet(Queue), s \in ToSet(Status), to \in ToSet(Status) \cup {"removed"} :
       \E i \in DOMAIN lists[q][s] : Move(q, s, i, to)
  /\ UNCHANGED <<scanVars, searchVars>>

Next == Scanning \/ Searching \/ Changing

Spec == Init /\ [][Next]_vars

\* Redis answers what it is asked.
FairSpec == Spec /\ WF_vars(Scanning) /\ WF_vars(Searching)

\* The types of the lists and of both readers.
TypeOK ==
  /\ lists \in [ToSet(Queue) -> [ToSet(Status) -> Seq(Job)]] /\ gone \subseteq Job /\ moves \in Nat
  /\ ScanTypeOK /\ SearchTypeOK

\* A request is answered, however the lists change and though reads fail for a while.
ReadsEnd == ~Idle ~> (Scanned \/ search.pc = "done")
=============================================================================
