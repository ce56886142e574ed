------------------------------ MODULE DemoRun ------------------------------
(***************************************************************************)
(* A demonstration on the production board: a run makes cards of its own,  *)
(* ticks move some of them one stage on, and people start, pause, stop and *)
(* reset it from the API or from a command.  Every view loads the row of   *)
(* the run without a lock and writes single columns back; only a tick      *)
(* locks the row and reads it again.  What a page polls, demo_status,      *)
(* writes too: the count of finished cards, and the end of the run.        *)
(*                                                                         *)
(* The numbers of the cards are the same for every run: a new run takes    *)
(* the rows over, with the order and the item they belong to.  A request   *)
(* that repeats a client_request_id finds its run like one for its status. *)
(***************************************************************************)
EXTENDS Naturals, FiniteSets

CONSTANTS
  Runs,       \* KanbanDemoRun, by primary key
  NoRun,
  MaxTrays,   \* cards of the largest run
  LastPost,   \* post 1 is "queue", LastPost - 1 is "warehouse", LastPost is "done"
  TickLimit,  \* tick_limit: cards one tick moves at most
  People,     \* request threads and commands
  MaxCalls    \* bound: calls and moves by hand

Trays == 1 .. MaxTrays
Opened == {"created", "running", "paused", "failed"}
Closed == {"completed", "stopped"}

ASSUME DemoAssumption ==
  /\ NoRun \notin Runs
  /\ MaxTrays \in Nat \ {0} /\ LastPost \in Nat \ {0, 1, 2} /\ TickLimit \in Nat \ {0}
  /\ MaxCalls \in Nat

VARIABLES
  demo,      \* the rows of the runs
  tray,      \* DEMO-B-i: its post (0: no row), its demo_run, that of its stock record
  call,      \* what each thread is in the middle of
  calls,
  early,     \* history: runs whose full count was saved while they were not running
  reopened,  \* history: runs that were closed when a status was written over it
  calm       \* history: no two calls made or deleted cards at once, none went by hand

memory == <<early, reopened, calm>>
rehearsal == <<demo, tray, call, calls, memory>>

NoDemo == [status |-> "none", count |-> 0, total |-> 1, active |-> FALSE]
NoTray == [post |-> 0, run |-> NoRun, stock |-> NoRun]
NoCall == [at |-> "idle"]
(* A run between its transactions carries the status and the count it was loaded with. *)
Carrying == {"loaded", "driving", "counting", "saving"}
CallsOf ==
  {NoCall}
  \cup [at : {"looked"}]
  \cup [at : Carrying, op : {"start", "pause", "stop", "drive", "status"}, run : Runs,
        status : Opened \cup Closed, count : Nat, seen : Nat]
  \cup [at : {"ticking"}, run : Runs, trays : SUBSET Trays, seen : Nat]
  \cup [at : {"collected"}, run : Runs, trays : SUBSET Trays]

Exists(r) == demo[r].status \in Opened \cup Closed
TraysOf(r) == {i \in Trays : tray[i].run = r}
Done(r) == Cardinality({i \in TraysOf(r) : tray[i].post = LastPost})

Calls == calls < MaxCalls /\ calls' = calls + 1
Rests(u) == call[u] = NoCall /\ Calls
Ends(u) == call' = [call EXCEPT ![u] = NoCall]

(* select_for_update of tick_demo, from its query to its commit *)
RunLocked(r) == \E v \in People : call[v].at = "ticking" /\ call[v].run = r
TrayLocked(i) ==
  \E v \in People : call[v].at = "ticking" /\ tray[i].run = call[v].run
                      /\ tray[i].post # LastPost

-----------------------------------------------------------------------------
(* create_demo_run: one transaction that locks nothing it reads *)

Crowded == \E v \in People : call[v].at \in {"looked", "collected"}

OnlyRunning(r) == demo[r].status = "running" /\ demo[r].active
IsOn(r) == demo[r].status \in Opened /\ demo[r].active

CreateLook(u) ==
  /\ Rests(u)
  /\ \/ \E r \in Runs :    \* the run that is still active is the answer
          /\ IsOn(r)
          /\ call' = [call EXCEPT ![u] =
               [at |-> "counting", op |-> "status", run |-> r, status |-> demo[r].status,
                count |-> demo[r].count, seen |-> 0]]
          /\ UNCHANGED calm
     \/ /\ \A r \in Runs : ~ IsOn(r)
        /\ call' = [call EXCEPT ![u] = [at |-> "looked"]]
        /\ calm' = (calm /\ ~ Crowded)
  /\ UNCHANGED <<demo, tray, early, reopened>>

CreateWrite(u, r, n) ==
  /\ call[u].at = "looked"
  /\ demo[r] = NoDemo
  /\ \A i \in 1 .. n : ~ TrayLocked(i)
  /\ demo' = [demo EXCEPT ![r] =
       [status |-> "created", count |-> 0, total |-> n, active |-> TRUE]]
  /\ tray' = [i \in Trays |->
       IF i \in 1 .. n THEN [tray[i] EXCEPT !.post = 1, !.run = r] ELSE tray[i]]
  /\ call' = [call EXCEPT ![u] =
       [at |-> "counting", op |-> "status", run |-> r, status |-> "created", count |-> 0,
        seen |-> 0]]
  /\ UNCHANGED <<calls, memory>>

-----------------------------------------------------------------------------
(* start, pause, resume, stop, status: the row is loaded, one statement writes it *)

ReadRun(u, r, op) ==
  /\ Rests(u)
  /\ Exists(r)
  /\ call' = [call EXCEPT ![u] =
       [at |-> IF op = "status" THEN "counting" ELSE "loaded", op |-> op, run |-> r,
        status |-> demo[r].status, count |-> demo[r].count, seen |-> 0]]
  /\ UNCHANGED <<demo, tray, memory>>

(* The status written over a closed one opens the run again. *)
WriteStatus(u, new) ==
  LET r == call[u].run IN
  /\ Exists(r) /\ ~ RunLocked(r)
  /\ demo' = [demo EXCEPT ![r].status = new, ![r].active = @ /\ new # "stopped"]
  /\ reopened' = IF demo[r].status \in Closed /\ new \in Opened
                 THEN reopened \cup {r} ELSE reopened
  /\ UNCHANGED <<tray, calls, early, calm>>

(* start_demo looks at the copy; pause_demo and stop_demo look at nothing. *)
Act(u) ==
  /\ call[u].at = "loaded"
  /\ LET new == CASE call[u].op = "pause" -> "paused"
                  [] call[u].op = "stop"  -> "stopped"
                  [] OTHER                -> "running"
     IN  /\ new = "running" => call[u].status \in Opened
         /\ WriteStatus(u, new)
         /\ call' = [call EXCEPT ![u] =
              [@ EXCEPT !.at = IF call[u].op = "drive" THEN "driving" ELSE "counting",
                        !.status = new]]

(* run_demo_until_done: the ticks it asks for are those of another thread; after the
   last one it gives the run up with the copy it began with. *)
DriverGivesUp(u) ==
  /\ call[u].at = "driving"
  /\ WriteStatus(u, "failed")
  /\ call' = [call EXCEPT ![u] = [@ EXCEPT !.at = "counting", !.status = "failed"]]

(* demo_status: the cards are counted, and the count is saved if it is another one
   than the copy has. *)
CountTrays(u) ==
  /\ call[u].at = "counting"
  /\ call' = [call EXCEPT ![u] =
       IF Done(call[u].run) = call[u].count THEN NoCall
       ELSE [@ EXCEPT !.at = "saving", !.seen = Done(call[u].run)]]
  /\ UNCHANGED <<demo, tray, calls, memory>>

FinishesLate(copy, r, n) == n > demo[r].total /\ copy = "running"
Finishes(copy, r, n) == n >= demo[r].total /\ copy = "running"

Counted(r, n, copy) ==
  /\ demo' = [demo EXCEPT ![r].count = n,
                ![r].status = IF Finishes(copy, r, n) THEN "completed" ELSE @]
  /\ early' = IF n >= demo[r].total /\ copy # "running" THEN early \cup {r} ELSE early

SaveCount(u) ==
  /\ call[u].at = "saving"
  /\ Exists(call[u].run) /\ ~ RunLocked(call[u].run)
  /\ Counted(call[u].run, call[u].seen, call[u].status)
  /\ Ends(u)
  /\ UNCHANGED <<tray, calls, reopened, calm>>

-----------------------------------------------------------------------------
(* tick_demo: one transaction, the row locked and read again *)

(* A card that cannot be moved is left where it is; which ones are taken first is the
   mode of the run. *)
TickLock(u, r) ==
  /\ Rests(u)
  /\ Exists(r) /\ ~ RunLocked(r)
  /\ demo[r].status = "running"
  /\ \E T \in SUBSET {i \in TraysOf(r) : tray[i].post # LastPost} :
       /\ Cardinality(T) <= TickLimit
       /\ call' = [call EXCEPT ![u] =
            [at |-> "ticking", run |-> r, trays |-> T,
             seen |-> Done(r) + Cardinality({i \in T : tray[i].post + 1 = LastPost})]]
  /\ UNCHANGED <<demo, tray, memory>>

(* move_batch one post on; whoever reaches the warehouse is put on stock once. *)
MovedTo(t, p) ==
  [t EXCEPT !.post = p,
            !.stock = IF p = LastPost - 1 /\ @ = NoRun THEN t.run ELSE @]

TickCommit(u) ==
  LET r == call[u].run
      n == call[u].seen
  IN  /\ call[u].at = "ticking"
      /\ tray' = [i \in Trays |->
           IF i \in call[u].trays THEN MovedTo(tray[i], tray[i].post + 1) ELSE tray[i]]
      /\ IF demo[r].count # n THEN Counted(r, n, demo[r].status)
         ELSE UNCHANGED <<demo, early>>
      /\ Ends(u)
      /\ UNCHANGED <<calls, reopened, calm>>

(* The run is not running: nothing moves, and its cards are counted all the same. *)
TickRests(u, r) ==
  /\ Rests(u)
  /\ Exists(r) /\ ~ RunLocked(r)
  /\ demo[r].status # "running" /\ demo[r].count # Done(r)
  /\ Counted(r, Done(r), demo[r].status)
  /\ UNCHANGED <<tray, call, reopened, calm>>

-----------------------------------------------------------------------------
(* reset_demo: the rows are listed, then deleted one by one, whoever has them by then *)

ResetCollect(u, r) ==
  /\ Rests(u)
  /\ Exists(r)
  /\ call' = [call EXCEPT ![u] = [at |-> "collected", run |-> r, trays |-> TraysOf(r)]]
  /\ calm' = (calm /\ ~ Crowded)
  /\ UNCHANGED <<demo, tray, early, reopened>>

(* The stock records of the run are deleted first; one that another run has left
   protects its card. *)
StockLeft(i, r) == IF tray[i].stock = r THEN NoRun ELSE tray[i].stock
Protected(r, T) == \E i \in T : StockLeft(i, r) # NoRun

ResetCommit(u) ==
  LET r == call[u].run
      T == call[u].trays
  IN  /\ call[u].at = "collected"
      /\ Exists(r) /\ ~ RunLocked(r) /\ \A i \in T : ~ TrayLocked(i)
      /\ ~ Protected(r, T)
      /\ tray' = [i \in Trays |-> IF i \in T THEN NoTray
                                  ELSE [tray[i] EXCEPT !.stock = StockLeft(i, r)]]
      /\ demo' = [demo EXCEPT ![r] = [NoDemo EXCEPT !.status = "gone"]]
      /\ call' = [v \in People |->
           IF v = u THEN NoCall
           ELSE IF call[v].at = "collected" THEN [call[v] EXCEPT !.trays = @ \ T]
           ELSE call[v]]
      /\ UNCHANGED <<calls, memory>>

(* A refusal, a row that is gone, a deadlock, a client that went away: what is not
   committed is not done. *)
Fails(u) ==
  /\ call[u].at # "idle"
  /\ Ends(u)
  /\ UNCHANGED <<demo, tray, calls, memory>>

-----------------------------------------------------------------------------
(* The cards are cards of the board: people move them, not back from the last post,
   and delete those that are not on stock. *)

HandMove(i) ==
  /\ Calls
  /\ tray[i].post \in 1 .. LastPost - 1 /\ ~ TrayLocked(i)
  /\ \E p \in 1 .. LastPost \ {tray[i].post} :
       tray' = [tray EXCEPT ![i] = MovedTo(tray[i], p)]
  /\ UNCHANGED <<demo, call, memory>>

HandDelete(i) ==
  /\ Calls
  /\ tray[i].post # 0 /\ tray[i].stock = NoRun /\ ~ TrayLocked(i)
  /\ tray' = [tray EXCEPT ![i] = NoTray]
  /\ calm' = FALSE
  /\ call' = [v \in People |->
       IF call[v].at = "collected" THEN [call[v] EXCEPT !.trays = @ \ {i}] ELSE call[v]]
  /\ UNCHANGED <<demo, early, reopened>>

-----------------------------------------------------------------------------
DemoInit ==
  /\ demo = [r \in Runs |-> NoDemo]
  /\ tray = [i \in Trays |-> NoTray]
  /\ call = [u \in People |-> NoCall]
  /\ calls = 0
  /\ early = {} /\ reopened = {} /\ calm = TRUE

DemoNext ==
  \/ \E u \in People :
       \/ CreateLook(u)
       \/ \E r \in Runs, n \in Trays : CreateWrite(u, r, n)
       \/ \E r \in Runs, op \in {"start", "pause", "stop", "drive", "status"} : ReadRun(u, r, op)
       \/ Act(u) \/ DriverGivesUp(u) \/ CountTrays(u) \/ SaveCount(u)
       \/ \E r \in Runs : TickLock(u, r) \/ TickRests(u, r)
       \/ TickCommit(u)
       \/ \E r \in Runs : ResetCollect(u, r)
       \/ ResetCommit(u) \/ Fails(u)
  \/ \E i \in Trays : HandMove(i) \/ HandDelete(i)

DemoSpec == DemoInit /\ [][DemoNext]_rehearsal

-----------------------------------------------------------------------------
DemoTypeOK ==
  /\ demo \in [Runs -> [status : {"none", "gone"} \cup Opened \cup Closed, count : Nat,
                        total : Trays, active : BOOLEAN]]
  /\ tray \in [Trays -> [post : 0 .. LastPost, run : Runs \cup {NoRun},
                         stock : Runs \cup {NoRun}]]
  /\ call \in [People -> CallsOf]
  /\ calls \in Nat
  /\ early \subseteq Runs /\ reopened \subseteq Runs /\ calm \in BOOLEAN

(* While a tick moves cards its run stays RUNNING: a pause or a stop is answered when the
   tick is over, and then no card moves by itself any more. *)
TicksOnlyWhileRunning ==
  \A u \in People : call[u].at = "ticking" => demo[call[u].run].status = "running"

(* A run all of whose cards were counted at the last post is over, however ticks, polls
   and people overtake each other: if not, nothing would end it any more.  It stays open
   only where the full count was saved by someone who knew the run as not running, or a
   start, a pause or a driver that gave up wrote over the end. *)
FullMeansClosed ==
  \A r \in Runs : Exists(r) /\ demo[r].count >= demo[r].total =>
    demo[r].status \in Closed \/ r \in early \cup reopened

(* The run that is on has every card it was made with, so there are never two: as long as
   no two calls made or deleted cards at once, nobody deleted one by hand, and no finished
   run was opened again. *)
DemoIsWhole ==
  calm /\ reopened = {} =>
    \A r \in Runs : demo[r].status \in Opened => \A i \in 1 .. demo[r].total : tray[i].run = r
=============================================================================
