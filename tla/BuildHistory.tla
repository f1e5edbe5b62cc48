---------------------------- MODULE BuildHistory ----------------------------
(***************************************************************************)
(* The build history of the administration page: loadBuilds and its        *)
(* request generations, the 12-second poll, and the refreshes after a      *)
(* create or a delete (admin-ui/src/views/custom-client/index.vue).        *)
(*                                                                         *)
(* Requests are answered and delivered in any order.  A generation is only *)
(* ever compared with the newest one, so an in-flight request carries the  *)
(* result of that comparison.  One page of the list is modelled.           *)
(***************************************************************************)
EXTENDS Naturals

CONSTANTS Builds,      \* build rows
          Slots,       \* bounds the list requests in flight
          Free,        \* an unused slot
          MaxReturns,  \* bounds the undelivered answers to creates and deletes
          MaxFails     \* bounds the failed list requests

ASSUME BoundAssumption == MaxReturns \in Nat /\ MaxFails \in Nat

VARIABLES server,   \* the rows of the server
          phase,    \* "setup", then lifecycleGuard.mounted, then "unmounted"
          req,      \* list requests in flight
          shown,    \* builds.value
          loading,  \* loading.value
          timer,    \* pollTimer is set
          returns,  \* builds whose create or delete was answered, undelivered
          own,      \* builds whose create the page saw succeed
          failed,   \* the newest request that settled failed
          fails

historyVars == <<server, phase, req, shown, loading, timer, returns, own, failed, fails>>

\* What a row can be: "active" stands for pending, building, downloading and
\* extracting, "ended" for done and failed.
RowStates == {"none", "active", "ended", "gone"}

Rank == [none |-> 0, active |-> 1, ended |-> 2, gone |-> 3]

Lists == [Builds -> RowStates]

\* A list request; list is its answer once it is "listed".
Request == [current : BOOLEAN, silent : BOOLEAN, st : {"sent", "listed", "error"}, list : Lists]

ASSUME FreeAssumption == Free \notin Request

NoList == [b \in Builds |-> "none"]

HistoryTypeOK ==
    /\ server \in Lists
    /\ phase \in {"setup", "mounted", "unmounted"}
    /\ req \in [Slots -> Request \cup {Free}]
    /\ shown \in Lists
    /\ loading \in BOOLEAN /\ timer \in BOOLEAN /\ failed \in BOOLEAN
    /\ returns \in [Builds -> 0..MaxReturns]
    /\ own \in SUBSET Builds
    /\ fails \in 0..MaxFails

HistoryInit ==
    /\ server \in Lists
    /\ phase = "setup"
    /\ req = [q \in Slots |-> Free]
    /\ shown = NoList
    /\ loading = FALSE /\ timer = FALSE /\ failed = FALSE
    /\ returns = [b \in Builds |-> 0]
    /\ own = {}
    /\ fails = 0

-----------------------------------------------------------------------------
mounted == phase = "mounted"

hasActiveBuilds(list) == \E b \in Builds : list[b] = "active"

\* lifecycleGuard.isCurrent('builds', generation)
isCurrent(q) == mounted /\ req[q].current

Sent(silent) ==
    [current |-> TRUE, silent |-> silent, st |-> "sent", list |-> NoList]

Reply(q, st, list) ==
    [current |-> req[q].current, silent |-> req[q].silent, st |-> st, list |-> list]

BugSupersedesNothing(q, silent) ==
    [req EXCEPT ![q] = Sent(silent)]

\* lifecycleGuard.start('builds'), and the request of that generation sent.
start(q, silent) ==
    [p \in Slots |->
        IF p = q THEN Sent(silent)
        ELSE IF req[p] = Free THEN Free
        ELSE [req[p] EXCEPT !.current = FALSE]]

\* loadBuilds up to its await; it returns at once when the page is gone.
loadBuilds(silent) ==
    IF mounted
    THEN \E q \in Slots :
            /\ req[q] = Free
            /\ req' = start(q, silent)
            /\ loading' = (loading \/ ~silent)
    ELSE UNCHANGED <<req, loading>>

\* onMounted
Mount ==
    /\ phase = "setup"
    /\ phase' = "mounted"
    /\ \E q \in Slots : req' = start(q, FALSE)
    /\ loading' = TRUE
    /\ UNCHANGED <<server, shown, timer, returns, own, failed, fails>>

\* The interval callback of ensurePolling up to its await.
Tick ==
    /\ timer
    /\ mounted
    /\ loadBuilds(TRUE)
    /\ UNCHANGED <<server, phase, shown, timer, returns, own, failed, fails>>

\* The server lists its rows.
Serve(q) ==
    /\ req[q] # Free
    /\ req[q].st = "sent"
    /\ req' = [req EXCEPT ![q] = Reply(q, "listed", server)]
    /\ UNCHANGED <<server, phase, shown, loading, timer, returns, own, failed, fails>>

\* The request fails or times out.
Lose(q) ==
    /\ fails < MaxFails
    /\ req[q] # Free
    /\ req[q].st # "error"
    /\ req' = [req EXCEPT ![q] = Reply(q, "error", NoList)]
    /\ fails' = fails + 1
    /\ UNCHANGED <<server, phase, shown, loading, timer, returns, own, failed>>

BugStopsOnError(q, list) ==
    timer' = (req[q].st # "error" /\ hasActiveBuilds(list))

\* ensurePolling, and the check after a silent load, which stops on the same
\* condition.
ensurePolling(q, list) == timer' = hasActiveBuilds(list)

\* loadBuilds after its await: an answer of an older generation, or one that
\* arrives after the page is gone, is dropped.
Deliver(q) ==
    /\ req[q] # Free
    /\ req[q].st # "sent"
    /\ req' = [req EXCEPT ![q] = Free]
    /\ IF isCurrent(q)
       THEN /\ shown' = IF req[q].st = "error" THEN shown ELSE req[q].list
            /\ loading' = (loading /\ req[q].silent)
            /\ ensurePolling(q, shown')
            /\ failed' = (req[q].st = "error")
       ELSE UNCHANGED <<shown, loading, timer, failed>>
    /\ UNCHANGED <<server, phase, returns, own, fails>>

\* onUnmounted
Unmount ==
    /\ mounted
    /\ phase' = "unmounted"
    /\ timer' = FALSE
    /\ UNCHANGED <<server, req, shown, loading, returns, own, failed, fails>>

\* The server executes a create or a delete, of this page or of someone else.
ServerCreates(b, here) ==
    /\ server[b] = "none"
    /\ server' = [server EXCEPT ![b] = "active"]
    /\ here => mounted /\ returns[b] < MaxReturns
    /\ returns' = IF here THEN [returns EXCEPT ![b] = @ + 1] ELSE returns
    /\ UNCHANGED <<phase, req, shown, loading, timer, own, failed, fails>>

ServerDeletes(b, here) ==
    /\ server[b] = "ended"
    /\ server' = [server EXCEPT ![b] = "gone"]
    /\ here => mounted /\ returns[b] < MaxReturns /\ shown[b] \in {"active", "ended"}
    /\ returns' = IF here THEN [returns EXCEPT ![b] = @ + 1] ELSE returns
    /\ UNCHANGED <<phase, req, shown, loading, timer, own, failed, fails>>

\* The build lifecycle ends a build.
ServerEnds(b) ==
    /\ server[b] = "active"
    /\ server' = [server EXCEPT ![b] = "ended"]
    /\ UNCHANGED <<phase, req, shown, loading, timer, returns, own, failed, fails>>

BugReturnsTwice(b) ==
    /\ returns[b] > 0 \/ b \in own
    /\ returns' = [returns EXCEPT ![b] = @ - 1]
    /\ own' = own \cup {b}
    /\ loadBuilds(FALSE)
    /\ UNCHANGED <<server, phase, shown, timer, failed, fails>>

\* submitBuild or deleteBuild after its await: loadBuilds().
Returns(b) ==
    /\ returns[b] > 0
    /\ returns' = [returns EXCEPT ![b] = @ - 1]
    /\ own' = own \cup {b}
    /\ loadBuilds(FALSE)
    /\ UNCHANGED <<server, phase, shown, timer, failed, fails>>

HistoryNext ==
    \/ Mount \/ Unmount \/ Tick
    \/ \E q \in Slots : Serve(q) \/ Lose(q) \/ Deliver(q)
    \/ \E b \in Builds :
        \/ \E here \in BOOLEAN : ServerCreates(b, here) \/ ServerDeletes(b, here)
        \/ ServerEnds(b) \/ Returns(b)

HistorySpec == HistoryInit /\ [][HistoryNext]_historyVars

-----------------------------------------------------------------------------
Settled == \A q \in Slots : req[q] = Free \/ ~isCurrent(q)

\* The history never shows an older state of a build after a newer one, in
\* whatever order the answers of overlapping loads arrive (loadBuilds).
HistoryMovesForward == [][\A b \in Builds : Rank[shown[b]] <= Rank[shown'[b]]]_historyVars

\* When the newest load has settled without an error, every build whose create
\* or delete this page saw succeed is in the list it shows (submitBuild).
OwnBuildsShown ==
    mounted /\ Settled /\ ~failed => \A b \in own : shown[b] # "none"

-----------------------------------------------------------------------------
\* A build the page shows as unfinished is shown as finished without a reload
\* (B-017), as long as the page stays open.
HistoryCatchesUp ==
    \A b \in Builds : shown[b] = "active" ~> shown[b] # "active" \/ phase = "unmounted"

\* The server works, the timer fires, every request is answered, and now and
\* then the newest one before the timer fires again.
HistoryFairness ==
    /\ \A b \in Builds : WF_historyVars(ServerEnds(b))
    /\ WF_historyVars(Tick)
    /\ \A q \in Slots :
        /\ WF_historyVars(Serve(q)) /\ WF_historyVars(Deliver(q))
        /\ SF_historyVars(req[q] # Free /\ isCurrent(q) /\ Serve(q))
        /\ SF_historyVars(req[q] # Free /\ isCurrent(q) /\ Deliver(q))
=============================================================================
