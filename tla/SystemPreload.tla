------------------------------ MODULE SystemPreload ------------------------------
(***************************************************************************)
(* SystemPreloadRequest::resolve (system_preload.rs) called by the threads *)
(* of one process.  The environment belongs to the process: a call sets it *)
(* for its resolver and puts it back, under ENVIRONMENT_LOCK.  Each access *)
(* to a variable is a step of its own; the lists of LD_PRELOAD and the     *)
(* environment are as in LoaderPaths.                                      *)
(***************************************************************************)
EXTENDS LoaderPaths

CONSTANTS
    Threads,
    Schedules  \* the calls of each thread, in order, and the environment before them

Nobody  == "nobody"
Nothing == [v \in {} |-> <<>>]

ASSUME ScheduleAssumption ==
    /\ Nobody \notin Threads
    /\ \A s \in Schedules : IsEnvironment(s.environment)

VARIABLES
    schedule,
    calls,     \* thread -> its requests that have not returned: entries, secure
    variables, \* the environment of the process
    holder,    \* the thread that holds ENVIRONMENT_LOCK
    at,        \* thread -> where it is in resolve
    captured,  \* thread -> what its EnvironmentRestore will put back
    reads      \* thread -> what its resolver has read of the environment

preloadVars == <<schedule, calls, variables, holder, at, captured, reads>>

TokensExpanded(list) == [k \in DOMAIN list |-> <<"/">> \o list[k]]

PreloadInit ==
    /\ schedule \in Schedules
    /\ calls = schedule.calls /\ variables = schedule.environment
    /\ holder = Nobody /\ at = [t \in Threads |-> "outside"]
    /\ captured = [t \in Threads |-> Nothing] /\ reads = [t \in Threads |-> Nothing]

Request(t)  == Head(calls[t])
Goes(t, to) == at' = [at EXCEPT ![t] = to]
Noted(old, names) == Restored(old, names, variables)
Taken(names) == Noted(Nothing, names)

(* A lock poisoned by a panic is taken like any other.                     *)
AcquireUnheld(t) ==  \* the guard is dropped at once
    /\ at[t] = "outside" /\ calls[t] # <<>> /\ holder = Nobody
    /\ Goes(t, "capture preload")
    /\ UNCHANGED <<schedule, calls, variables, holder, captured, reads>>
Acquire(t) ==
    /\ at[t] = "outside" /\ calls[t] # <<>> /\ holder = Nobody
    /\ holder' = t /\ Goes(t, "capture preload")
    /\ UNCHANGED <<schedule, calls, variables, captured, reads>>

(* EnvironmentRestore::capture                                             *)
CapturePreload(t) ==
    /\ at[t] = "capture preload"
    /\ captured' = [captured EXCEPT ![t] = Taken(Preload)]
    /\ Goes(t, IF Request(t).secure THEN "capture library path" ELSE "set preload")
    /\ UNCHANGED <<schedule, calls, variables, holder, reads>>
CaptureLibraryPath(t) ==
    /\ at[t] = "capture library path"
    /\ captured' = [captured EXCEPT ![t] = Noted(@, Library)] /\ Goes(t, "set preload")
    /\ UNCHANGED <<schedule, calls, variables, holder, reads>>

SetPreload(t) ==
    /\ at[t] = "set preload"
    /\ variables' = WithPreload(variables, Combined(captured[t], Request(t).entries, Request(t).secure))
    /\ Goes(t, IF Request(t).secure THEN "clear library path" ELSE "read preload")
    /\ UNCHANGED <<schedule, calls, holder, captured, reads>>
ClearLibraryPath(t) ==
    /\ at[t] = "clear library path"
    /\ variables' = WithLibraryPath(variables, TRUE) /\ Goes(t, "read preload")
    /\ UNCHANGED <<schedule, calls, holder, captured, reads>>

(* The resolver: it reads both variables, may set LD_PRELOAD itself with   *)
(* the tokens expanded, and returns, having put that back, or panics.      *)
ReadPreload(t) ==
    /\ at[t] = "read preload"
    /\ reads' = [reads EXCEPT ![t] = Taken(Preload)]
    /\ \/ Goes(t, "read library path")
       \/ DOMAIN reads'[t] # {} /\ Goes(t, "set expanded")
    /\ UNCHANGED <<schedule, calls, variables, holder, captured>>
SetExpanded(t) ==
    /\ at[t] = "set expanded" /\ Goes(t, "read library path")
    /\ variables' = Assigned(variables, "LD_PRELOAD", TokensExpanded(reads[t]["LD_PRELOAD"]))
    /\ UNCHANGED <<schedule, calls, holder, captured, reads>>
ReadLibraryPath(t) ==
    /\ at[t] = "read library path"
    /\ reads' = [reads EXCEPT ![t] = Noted(@, Library)] /\ Goes(t, "returning")
    /\ UNCHANGED <<schedule, calls, variables, holder, captured>>
ResolverReturns(t) ==
    /\ at[t] = "returning" /\ Goes(t, "restore preload")
    /\ variables' = Restored(variables, Preload, reads[t])
    /\ UNCHANGED <<schedule, calls, holder, captured, reads>>
ResolverPanics(t) ==
    /\ at[t] \in {"read preload", "set expanded", "read library path", "returning"} /\ Goes(t, "restore preload")
    /\ UNCHANGED <<schedule, calls, variables, holder, captured, reads>>

(* Drop for EnvironmentRestore, and only then the guard is dropped: on a   *)
(* return, an error and a panic alike.                                     *)
RestorePreload(t) ==
    /\ at[t] = "restore preload"
    /\ variables' = Restored(variables, Preload, captured[t])
    /\ Goes(t, IF Request(t).secure THEN "restore library path" ELSE "release")
    /\ UNCHANGED <<schedule, calls, holder, captured, reads>>
RestoreLibraryPath(t) ==
    /\ at[t] = "restore library path"
    /\ variables' = Restored(variables, Library, captured[t]) /\ Goes(t, "release")
    /\ UNCHANGED <<schedule, calls, holder, captured, reads>>
Release(t) ==
    /\ at[t] = "release" /\ Goes(t, "outside")
    /\ holder' = Nobody /\ calls' = [calls EXCEPT ![t] = Tail(@)]
    /\ UNCHANGED <<schedule, variables, captured, reads>>

ThreadStep(t) ==
    \/ Acquire(t) \/ CapturePreload(t) \/ CaptureLibraryPath(t) \/ SetPreload(t) \/ ClearLibraryPath(t)
    \/ ReadPreload(t) \/ SetExpanded(t) \/ ReadLibraryPath(t) \/ ResolverReturns(t) \/ ResolverPanics(t)
    \/ RestorePreload(t) \/ RestoreLibraryPath(t) \/ Release(t)
PreloadNext  == \E t \in Threads : ThreadStep(t)
PreloadEnded == \A t \in Threads : calls[t] = <<>> /\ at[t] = "outside"
PreloadStopped == PreloadEnded /\ UNCHANGED preloadVars

(* Each thread goes on; the lock stays free once the other threads' calls, *)
(* which are finitely many, are over.                                      *)
PreloadSpec ==
    PreloadInit /\ [][PreloadNext \/ PreloadStopped]_preloadVars
    /\ \A t \in Threads : WF_preloadVars(ThreadStep(t))

-----------------------------------------------------------------------------
(* resolve (system_preload.rs): the resolver of a call sees the environment*)
(* the process had, with the entries of its own request and nothing of     *)
(* another call's, whatever the threads do; when no call is under way the  *)
(* process has its environment back, after panics too.                     *)
Intended(t) ==
    WithLibraryPath(WithPreload(schedule.environment,
                                Combined(schedule.environment, Request(t).entries, Request(t).secure)),
                    Request(t).secure)
EachCallHasItsOwnEnvironment ==
    /\ \A t \in Threads : at[t] = "returning" => reads[t] = Intended(t)
    /\ holder = Nobody => variables = schedule.environment
=============================================================================
