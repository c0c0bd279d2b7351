-------------------------------- MODULE Cron --------------------------------
(***************************************************************************)
(* libcron: a list of periodic jobs, sorted by period, and a list of       *)
(* timeouts, both walked by one timer function, whose callbacks change the *)
(* lists while they are walked.                                            *)
(*                                                                         *)
(* The lists are kept as the code keeps them: nodes on a heap, with a      *)
(* first and a last pointer for each list.  free() leaves a node's content *)
(* in place until malloc() hands the node out again, so that what the code *)
(* reads through a pointer it did not update is modelled as well.  Jobs    *)
(* and timeouts have the same layout and share the heap.                   *)
(***************************************************************************)
EXTENDS Integers, Sequences, SequencesExt, FiniteSets, FiniteSetsExt

CONSTANTS
    Addr,            \* what malloc can return for a job or a timeout
    NULL,
    Periods,         \* total_ms of the jobs the application adds
    Delays,          \* ms_left of the timeouts it sets
    TimeoutIds,      \* the identifyers it gives its timeouts
    TailRemovals,    \* it removes the last job or timeout of a list
    OwnRemovals      \* a job or timeout function frees its own node

Lists == {"jobs", "timeouts"}

ASSUME CronAssumption ==
    /\ IsFiniteSet(Addr) /\ NULL \notin Addr
    /\ Periods \subseteq Nat \ {0} /\ Periods # {}    \* 0 divides by zero
    /\ Delays \subseteq Nat /\ Delays # {}
    /\ IsFiniteSet(Periods) /\ IsFiniteSet(Delays)    \* 32 bits
    /\ TailRemovals \in BOOLEAN /\ OwnRemovals \in BOOLEAN

Pointer == Addr \cup {NULL}
MaxPeriod == Max(Periods)

\* ms_left is unsigned: 0 counts down to 2^32 - 1, which stands for "never".
Wrapped == 4 * (MaxPeriod + Max(Delays))

VARIABLES
    node,        \* the heap: ms is total_ms or ms_left, id a timeout's name
    allocated,   \* the nodes that are not free
    first, last, \* crontab_ptr and timeout_ptr
    ms,          \* cron_ms_for_execution_timer
    walk,        \* the list the timer function walks, or "none"
    current,     \* its pointer into that list
    inFn,        \* it is in current->fn()
    since,       \* history: ticks since a job was added or called
    due          \* history: nodes this tick has to serve and has not yet

heap   == <<node, allocated, first, last>>
timer  == <<ms, walk, current, inFn>>
vars   == <<heap, timer, since, due>>

-----------------------------------------------------------------------------
(* The lists *)

\* The nodes from first on, in order.
Chain(l) ==
    LET upTo[n \in 0 .. Cardinality(Addr)] ==
          IF n = 0 THEN <<>>
          ELSE LET c == upTo[n - 1]
                   a == IF c = <<>> THEN first[l] ELSE node[Last(c)].next
               IN  IF a = NULL THEN c ELSE Append(c, a)
    IN  upTo[Cardinality(Addr)]

Listed(l) == ToSet(Chain(l))

\* The node the sorted insert puts a job of this period in front of.
Before_Longer(c, total_ms) == SelectInSeq(c, LAMBDA a : total_ms < node[a].ms)
Before_First(c, total_ms) == IF c = <<>> THEN 0 ELSE 1
Before(c, total_ms) == SelectInSeq(c, LAMBDA a : total_ms <= node[a].ms)

\* last->next = a; last = a
LinkLast_KeepsLast(heap0, l, a) ==
    /\ node' = [heap0 EXCEPT ![last[l]].next = a]
    /\ UNCHANGED <<first, last>>
LinkLast(heap0, l, a) ==
    /\ node' = [heap0 EXCEPT ![last[l]].next = a]
    /\ last' = [last EXCEPT ![l] = a]
    /\ UNCHANGED first

LinkOnly(heap0, l, a) ==
    /\ node' = heap0
    /\ first' = [first EXCEPT ![l] = a]
    /\ last' = [last EXCEPT ![l] = a]

\* A new job; when no listed job has as long a period the loop runs off the
\* end of the list and links the job nowhere.
LinkSorted(heap0, a, total_ms) ==
    LET c == Chain("jobs")
        i == Before(c, total_ms)
    IN  /\ node' = IF i = 0 THEN heap0
                   ELSE IF i = 1 THEN [heap0 EXCEPT ![a].next = c[1]]
                   ELSE [heap0 EXCEPT ![a].next = c[i], ![c[i - 1]].next = a]
        /\ first' = IF i = 1 THEN [first EXCEPT !["jobs"] = a] ELSE first
        /\ UNCHANGED last

\* free() of the node at a, taken out of its list; last is not looked at.
Unlink(l, a) ==
    LET c == Chain(l)
        i == SelectInSeq(c, LAMBDA b : b = a)
    IN  /\ i > 0
        /\ IF i = 1
           THEN first' = [first EXCEPT ![l] = node[a].next] /\ UNCHANGED node
           ELSE node' = [node EXCEPT ![c[i - 1]].next = node[a].next] /\ UNCHANGED first
        /\ allocated' = allocated \ {a}
        /\ UNCHANGED last

-----------------------------------------------------------------------------
(* The calls of the application, from a function that cron has called or   *)
(* between two ticks.                                                      *)

AppRuns == walk = "none" \/ inFn

MayFree(as, l) ==
    /\ OwnRemovals \/ ~(inFn /\ current \in as)
    /\ TailRemovals \/ last[l] \notin as

cron_add_job(total_ms) ==
    /\ AppRuns
    /\ \E a \in Addr \ allocated :
         LET heap0 == [node EXCEPT ![a] = [@ EXCEPT !.ms = total_ms, !.next = NULL]]
         IN  /\ allocated' = allocated \cup {a}
             /\ since' = [since EXCEPT ![a] = 0]
             /\ IF last["jobs"] = NULL THEN LinkOnly(heap0, "jobs", a)
                ELSE IF heap0[last["jobs"]].ms < total_ms THEN LinkLast(heap0, "jobs", a)
                ELSE LinkSorted(heap0, a, total_ms)
    /\ UNCHANGED <<timer, due>>

cron_remove_job(a) ==
    /\ AppRuns /\ MayFree({a}, "jobs")
    /\ Unlink("jobs", a)
    /\ due' = due \ {a}
    /\ UNCHANGED <<timer, since>>

\* It resets last, so that the last job may be among the freed ones.
cron_clear ==
    /\ AppRuns /\ (OwnRemovals \/ walk # "jobs")
    /\ allocated' = allocated \ Listed("jobs")
    /\ first' = [first EXCEPT !["jobs"] = NULL]
    /\ last' = [last EXCEPT !["jobs"] = NULL]
    /\ due' = due \ Listed("jobs")
    /\ UNCHANGED <<node, timer, since>>

Named(id) == SelectInSeq(Chain("timeouts"), LAMBDA a : node[a].id = id)

ResetTimeout(id, ms_left) ==
    /\ Named(id) > 0
    /\ node' = [node EXCEPT ![Chain("timeouts")[Named(id)]].ms = ms_left]
    /\ UNCHANGED <<allocated, first, last>>

NewTimeout(id, ms_left) ==
    /\ Named(id) = 0
    /\ \E a \in Addr \ allocated :
         LET heap0 == [node EXCEPT ![a] = [id |-> id, ms |-> ms_left, next |-> NULL]]
         IN  /\ allocated' = allocated \cup {a}
             /\ IF last["timeouts"] = NULL THEN LinkOnly(heap0, "timeouts", a)
                ELSE LinkLast(heap0, "timeouts", a)

cron_set_timeout(id, ms_left) ==
    /\ AppRuns
    /\ ResetTimeout(id, ms_left) \/ NewTimeout(id, ms_left)
    /\ UNCHANGED <<timer, since, due>>

cron_remove_timeout(id) ==
    /\ AppRuns /\ Named(id) > 0
    /\ LET a == Chain("timeouts")[Named(id)]
       IN  /\ MayFree({a}, "timeouts")
           /\ Unlink("timeouts", a)
           /\ due' = due \ {a}
    /\ UNCHANGED <<timer, since>>

-----------------------------------------------------------------------------
(* The timer function *)

Init ==
    /\ node = [a \in Addr |-> [id |-> NULL, ms |-> 0, next |-> NULL]]
    /\ allocated = {}
    /\ first = [l \in Lists |-> NULL] /\ last = [l \in Lists |-> NULL]
    /\ ms = 0 /\ walk = "none" /\ current = NULL /\ inFn = FALSE
    /\ since = [a \in Addr |-> 0] /\ due = {}

\* The counter grows while no job is listed; above MaxPeriod its value does
\* not matter any more.
Ticked == IF ms > MaxPeriod THEN ms ELSE ms + 1

\* "reset on end"
Restarts_AtLast(k) == k >= node[last["jobs"]].ms
Restarts(k) == k > node[last["jobs"]].ms

WalkTimeouts ==
    /\ walk' = "timeouts"
    /\ current' = first["timeouts"]
    /\ due' = due \cup Listed("timeouts")

\* cron_increment_clock, and cron_execute_jobs up to its loop.
cron_timerfunc ==
    /\ walk = "none"
    /\ IF first["jobs"] = NULL \/ Ticked < node[first["jobs"]].ms
       THEN ms' = Ticked /\ WalkTimeouts
       ELSE /\ ms' = IF Restarts(Ticked) THEN 1 ELSE Ticked
            /\ walk' = "jobs" /\ current' = first["jobs"]
            /\ due' = {a \in Listed("jobs") : ms' % node[a].ms = 0}
    /\ since' = [a \in Addr |-> IF a \in Listed("jobs") /\ since[a] < 2 * MaxPeriod
                                THEN since[a] + 1 ELSE since[a]]
    /\ UNCHANGED <<heap, inFn>>

AtJob == walk = "jobs" /\ ~inFn /\ current # NULL /\ node[current].ms <= ms

CallJob ==
    /\ AtJob /\ ms % node[current].ms = 0
    /\ inFn' = TRUE
    /\ since' = [since EXCEPT ![current] = 0]
    /\ due' = due \ {current}
    /\ UNCHANGED <<heap, ms, walk, current>>

PassJob ==
    /\ AtJob /\ ms % node[current].ms # 0
    /\ current' = node[current].next
    /\ UNCHANGED <<heap, ms, walk, inFn, since, due>>

cron_execute_timeout ==
    /\ walk = "jobs" /\ ~inFn /\ ~AtJob
    /\ WalkTimeouts
    /\ UNCHANGED <<heap, ms, inFn, since>>

Down_Signed(left) == left - 1
Down(left) == IF left = 0 THEN Wrapped ELSE IF left = Wrapped THEN left ELSE left - 1

\* A timeout that has fired stays in the list.
CountDown ==
    /\ walk = "timeouts" /\ ~inFn /\ current # NULL
    /\ node' = [node EXCEPT ![current].ms = Down(@)]
    /\ IF node'[current].ms = 0 THEN inFn' = TRUE /\ UNCHANGED current
       ELSE current' = node[current].next /\ UNCHANGED inFn
    /\ due' = due \ {current}
    /\ UNCHANGED <<allocated, first, last, ms, walk, since>>

\* The job or timeout function returns, and the loop goes on from its node.
FnReturns ==
    /\ inFn
    /\ inFn' = FALSE
    /\ current' = node[current].next
    /\ UNCHANGED <<heap, ms, walk, since, due>>

TimerReturns ==
    /\ walk = "timeouts" /\ ~inFn /\ current = NULL
    /\ walk' = "none"
    /\ UNCHANGED <<heap, ms, current, inFn, since, due>>

App ==
    \/ \E total_ms \in Periods : cron_add_job(total_ms)
    \/ \E a \in Addr : cron_remove_job(a)
    \/ cron_clear
    \/ \E id \in TimeoutIds : cron_remove_timeout(id) \/ \E d \in Delays : cron_set_timeout(id, d)

Next ==
    \/ App
    \/ cron_timerfunc \/ CallJob \/ PassJob \/ cron_execute_timeout
    \/ CountDown \/ FnReturns \/ TimerReturns

Spec == Init /\ [][Next]_vars

-----------------------------------------------------------------------------
(* Types; a timeout counts down and stops at the wrapped value.            *)
TypeOK ==
    /\ node \in [Addr -> [id : TimeoutIds \cup {NULL}, next : Pointer,
                          ms : Periods \cup (0 .. Max(Delays)) \cup {Wrapped}]]
    /\ allocated \subseteq Addr
    /\ first \in [Lists -> Pointer] /\ last \in [Lists -> Pointer]
    /\ ms \in 0 .. MaxPeriod + 1 /\ walk \in Lists \cup {"none"}
    /\ current \in Pointer /\ inFn \in BOOLEAN
    /\ since \in [Addr -> 0 .. 2 * MaxPeriod] /\ due \subseteq Addr

Sorted(c) == \A i, j \in DOMAIN c : i < j => node[c[i]].ms <= node[c[j]].ms

(* Whatever is added and removed, also by the functions that are called,   *)
(* each list stays a chain without a cycle that ends in the node last      *)
(* points to, and the jobs stay sorted, as the early end of the walk needs.*)
ListsAreChains ==
    /\ \A l \in Lists :
         LET c == Chain(l)
         IN  /\ IsInjective(c)
             /\ IF c = <<>> THEN last[l] = NULL
                ELSE Last(c) = last[l] /\ node[last[l]].next = NULL
    /\ Sorted(Chain("jobs"))

(* cron.h: cron_add_job adds "a new job to the crontab": each node that was*)
(* added and not removed is in one of the lists, and in one only.          *)
NothingLost ==
    /\ allocated = Listed("jobs") \cup Listed("timeouts")
    /\ Listed("jobs") \cap Listed("timeouts") = {}

(* A tick calls every job whose period divides the counter and counts down *)
(* every timeout, however the functions it calls change the lists.         *)
DueAreServed == walk = "none" => due = {}

(* A job is called within twice its period, not within its period, because *)
(* the counter restarts at the longest one; jobs added meanwhile do not    *)
(* put it off any further.                                                 *)
CalledInTime ==
    walk = "none" => \A a \in Listed("jobs") : since[a] < 2 * node[a].ms
=============================================================================
