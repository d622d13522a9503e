-------------------------- MODULE DependencySearch_proofs --------------------------
(***************************************************************************)
(* For any threads and schedules, each call of resolve has the environment *)
(* it was meant to have, and leaves the one it found.  For any disk, images*)
(* and command line, a tool collects the scope a loader would, reports the *)
(* first image of it that has the symbol, and restores the environment.    *)
(***************************************************************************)
EXTENDS LoaderScope, SystemPreload, DivisionFacts, SequenceTheorems

(* Two environments that say the same of some names.                       *)
Agree(e, f, names) ==
    \A v \in names : (v \in DOMAIN e <=> v \in DOMAIN f) /\ (v \in DOMAIN e => e[v] = f[v])

Names == Preload \cup Library

(* What the operators on environments do, name by name.                    *)
LEMMA RestoredPreloadAgrees ==
    ASSUME NEW e, NEW f
    PROVE  /\ Agree(Restored(e, Preload, f), f, Preload)
           /\ Agree(Restored(e, Preload, f), e, Library)
    BY DEF Agree, Restored, Preload, Library

LEMMA RestoredLibraryAgrees ==
    ASSUME NEW e, NEW f
    PROVE  /\ Agree(Restored(e, Library, f), f, Library)
           /\ Agree(Restored(e, Library, f), e, Preload)
    BY DEF Agree, Restored, Preload, Library

LEMMA RestoredIsEnvironment ==
    ASSUME NEW e, NEW f, IsEnvironment(e)
    PROVE  IsEnvironment(Restored(e, Preload, f)) /\ IsEnvironment(Restored(e, Library, f))
    BY DEF IsEnvironment, Restored

LEMMA AgreementIsEquality ==
    ASSUME NEW e, NEW f, IsEnvironment(e), IsEnvironment(f), Agree(e, f, Names)
    PROVE  e = f
<1>1. DOMAIN e = DOMAIN f
  BY DEF IsEnvironment, Agree, Names
<1>2. \A v \in DOMAIN e : e[v] = f[v]
  BY DEF IsEnvironment, Agree, Names
<1> QED
  BY <1>1, <1>2 DEF IsEnvironment

LEMMA AgreementJoins ==
    ASSUME NEW e, NEW f, NEW g, NEW names, Agree(e, f, names), Agree(f, g, names)
    PROVE  Agree(e, g, names)
    BY DEF Agree

LEMMA AgreementOnNames ==
    ASSUME NEW e, NEW f, Agree(e, f, Preload), Agree(e, f, Library)
    PROVE  Agree(e, f, Names)
    BY DEF Agree, Names

LEMMA AssignedAgrees ==
    ASSUME NEW e, NEW list, IsEnvironment(e)
    PROVE  /\ IsEnvironment(Assigned(e, "LD_PRELOAD", list))
           /\ Agree(Assigned(e, "LD_PRELOAD", list), e, Library)
    BY DEF IsEnvironment, Assigned, Agree, Preload, Library

LEMMA WithPreloadAgrees ==
    ASSUME NEW e, NEW list, IsEnvironment(e)
    PROVE  /\ IsEnvironment(WithPreload(e, list))
           /\ Agree(WithPreload(e, list), e, Library)
<1>1. IsEnvironment(Removed(e, "LD_PRELOAD")) /\ Agree(Removed(e, "LD_PRELOAD"), e, Library)
  BY DEF IsEnvironment, Removed, Restrict, Agree, Preload, Library
<1> QED
  BY <1>1, AssignedAgrees DEF WithPreload

LEMMA WithLibraryPathIsEnvironment ==
    ASSUME NEW e, NEW secure, IsEnvironment(e)
    PROVE  IsEnvironment(WithLibraryPath(e, secure))
<1>1. IsEnvironment(Removed(e, "LD_LIBRARY_PATH"))
  BY DEF IsEnvironment, Removed, Restrict, Preload, Library
<1> QED
  BY <1>1 DEF WithLibraryPath

LEMMA CombinedDependsOnPreload ==
    ASSUME NEW e, NEW f, NEW entries, NEW secure, Agree(e, f, Preload)
    PROVE  Combined(e, entries, secure) = Combined(f, entries, secure)
    BY DEF Combined, Ambient, Agree, Preload

-----------------------------------------------------------------------------
(* The calls of resolve.                                                   *)
Changed(t) == IF Request(t).secure THEN Names ELSE Preload
Places ==
    {"outside", "capture preload", "capture library path", "set preload", "clear library path",
     "read preload", "set expanded", "read library path", "returning",
     "restore preload", "restore library path", "release"}

PreloadTypeOK ==
    /\ schedule \in Schedules
    /\ holder \in Threads \cup {Nobody}
    /\ at \in [Threads -> Places]
    /\ DOMAIN captured = Threads /\ DOMAIN reads = Threads
    /\ IsEnvironment(variables)

(* Only the thread that holds the lock is in a call.                       *)
OneCall == \A t \in Threads : holder = t <=> at[t] # "outside"

(* What the environment is, and what was captured of it, at each place.    *)
Untouched(t) ==
    at[t] \in {"capture preload", "capture library path", "set preload", "release"} =>
        variables = schedule.environment
Secure(t) ==
    at[t] \in {"capture library path", "clear library path", "restore library path"} =>
        Request(t).secure
Captured(t) ==
    /\ at[t] = "capture library path" => Agree(captured[t], schedule.environment, Preload)
    /\ at[t] \in Places \ {"outside", "capture preload", "capture library path", "release"} =>
           Agree(captured[t], schedule.environment, Changed(t))
Set(t) ==
    /\ at[t] = "clear library path" =>
           variables = WithPreload(schedule.environment,
                                   Combined(schedule.environment, Request(t).entries, Request(t).secure))
    /\ at[t] \in {"read preload", "set expanded"} => variables = Intended(t)
    /\ at[t] \in {"read library path", "returning"} => Agree(variables, Intended(t), Library)
Reads(t) ==
    /\ at[t] \in {"set expanded", "read library path"} =>
           IsEnvironment(reads[t]) /\ Agree(reads[t], Intended(t), Preload)
    /\ at[t] = "returning" => reads[t] = Intended(t)
PutBack(t) ==
    /\ at[t] = "restore preload" /\ ~Request(t).secure => Agree(variables, schedule.environment, Library)
    /\ at[t] = "restore library path" => Agree(variables, schedule.environment, Preload)

PlaceInv(t) == Untouched(t) /\ Secure(t) /\ Captured(t) /\ Set(t) /\ Reads(t) /\ PutBack(t)
PreloadInv ==
    /\ PreloadTypeOK
    /\ OneCall
    /\ holder = Nobody => variables = schedule.environment
    /\ \A t \in Threads : PlaceInv(t)

LEMMA ScheduledEnvironment == schedule \in Schedules => IsEnvironment(schedule.environment)
    BY ScheduleAssumption

LEMMA IntendedAgrees ==
    ASSUME NEW t, schedule \in Schedules
    PROVE  /\ IsEnvironment(Intended(t))
           /\ ~Request(t).secure => Agree(Intended(t), schedule.environment, Library)
<1> DEFINE list == Combined(schedule.environment, Request(t).entries, Request(t).secure)
<1>1. IsEnvironment(WithPreload(schedule.environment, list))
  BY ScheduledEnvironment, WithPreloadAgrees
<1>2. IsEnvironment(Intended(t))
  BY <1>1, WithLibraryPathIsEnvironment DEF Intended
<1>3. ASSUME ~Request(t).secure
      PROVE  Agree(Intended(t), schedule.environment, Library)
  BY <1>3, ScheduledEnvironment, WithPreloadAgrees DEF Intended, WithLibraryPath
<1> QED
  BY <1>2, <1>3

-----------------------------------------------------------------------------
(* What is left to show of a step: where it leads, and what holds there.   *)
LEMMA StepOfHolder ==
    ASSUME PreloadInv, NEW t \in Threads, NEW to \in Places \ {"outside"},
           holder = t \/ holder = Nobody, holder' = t, Goes(t, to),
           schedule' = schedule, DOMAIN captured' = Threads, DOMAIN reads' = Threads,
           IsEnvironment(variables'), PlaceInv(t)'
    PROVE  PreloadInv'
<1>1. PreloadTypeOK'
  BY DEF PreloadInv, PreloadTypeOK, Goes
<1>2. \A u \in Threads \ {t} : at'[u] = "outside"
  <2>1. \A u \in Threads \ {t} : holder # u
    BY ScheduleAssumption
  <2> QED
    BY <2>1 DEF PreloadInv, PreloadTypeOK, OneCall, Goes
<1>3. at'[t] = to
  BY DEF PreloadInv, PreloadTypeOK, Goes
<1>4. OneCall'
  BY <1>2, <1>3 DEF OneCall
<1>5. holder' # Nobody
  BY ScheduleAssumption
<1>6. \A u \in Threads : PlaceInv(u)'
  <2>1. ASSUME NEW u \in Threads \ {t} PROVE PlaceInv(u)'
    BY <1>2 DEF PlaceInv, Untouched, Secure, Captured, Set, Reads, PutBack
  <2> QED
    BY <2>1
<1> QED
  BY <1>1, <1>4, <1>5, <1>6 DEF PreloadInv

(* The thread in a call is the holder, and the invariant speaks of it.     *)
LEMMA InCall ==
    ASSUME PreloadInv, NEW t \in Threads, at[t] # "outside"
    PROVE  /\ holder = t /\ PlaceInv(t)
           /\ schedule \in Schedules /\ IsEnvironment(schedule.environment)
           /\ IsEnvironment(variables) /\ at \in [Threads -> Places]
           /\ DOMAIN captured = Threads /\ DOMAIN reads = Threads
    BY ScheduledEnvironment DEF PreloadInv, PreloadTypeOK, OneCall

LEMMA AcquireStep ==
    ASSUME PreloadInv, NEW t \in Threads, Acquire(t)
    PROVE  PreloadInv'
<1>1. variables = schedule.environment /\ IsEnvironment(variables)
  BY DEF PreloadInv, PreloadTypeOK, Acquire
<1>2. at'[t] = "capture preload"
  BY DEF PreloadInv, PreloadTypeOK, Acquire, Goes
<1>3. PlaceInv(t)'
  BY <1>1, <1>2 DEF PlaceInv, Untouched, Secure, Captured, Set, Reads, PutBack, Acquire
<1> QED
  BY <1>1, <1>3, StepOfHolder DEF Acquire, Places, PreloadInv, PreloadTypeOK

LEMMA CapturePreloadStep ==
    ASSUME PreloadInv, NEW t \in Threads, CapturePreload(t)
    PROVE  PreloadInv'
<1> USE InCall DEF CapturePreload
<1>1. variables = schedule.environment
  BY DEF PlaceInv, Untouched
<1>2. Request(t)' = Request(t)
  BY DEF Request
<1>3. captured'[t] = Taken(Preload) /\ DOMAIN captured' = Threads
  OBVIOUS
<1>4. Agree(captured'[t], schedule.environment, Preload)
  BY <1>1, <1>3, RestoredPreloadAgrees DEF Taken, Noted
<1>5. CASE Request(t).secure
  <2>1. Goes(t, "capture library path") /\ at'[t] = "capture library path"
    BY <1>5 DEF Goes
  <2>2. PlaceInv(t)'
    BY <1>1, <1>2, <1>4, <1>5, <2>1 DEF PlaceInv, Untouched, Secure, Captured, Set, Reads, PutBack
  <2> QED
    BY <1>3, <2>1, <2>2, StepOfHolder DEF Places
<1>6. CASE ~Request(t).secure
  <2>1. Goes(t, "set preload") /\ at'[t] = "set preload"
    BY <1>6 DEF Goes
  <2>2. PlaceInv(t)'
    BY <1>1, <1>2, <1>4, <1>6, <2>1
       DEF PlaceInv, Untouched, Secure, Captured, Changed, Set, Reads, PutBack
  <2> QED
    BY <1>3, <2>1, <2>2, StepOfHolder DEF Places
<1> QED
  BY <1>5, <1>6

LEMMA CaptureLibraryPathStep ==
    ASSUME PreloadInv, NEW t \in Threads, CaptureLibraryPath(t)
    PROVE  PreloadInv'
<1> USE InCall DEF CaptureLibraryPath
<1>1. /\ variables = schedule.environment /\ Request(t).secure
      /\ Agree(captured[t], schedule.environment, Preload)
  BY DEF PlaceInv, Untouched, Secure, Captured
<1>2. Request(t)' = Request(t)
  BY DEF Request
<1>3. captured'[t] = Noted(captured[t], Library) /\ DOMAIN captured' = Threads
  OBVIOUS
<1>4. /\ Agree(captured'[t], schedule.environment, Library)
      /\ Agree(captured'[t], captured[t], Preload)
  BY <1>1, <1>3, RestoredLibraryAgrees DEF Noted
<1>5. Agree(captured'[t], schedule.environment, Names)
  BY <1>1, <1>4, AgreementJoins, AgreementOnNames
<1>6. at'[t] = "set preload" /\ Goes(t, "set preload")
  BY DEF Goes
<1>7. PlaceInv(t)'
  BY <1>1, <1>2, <1>5, <1>6 DEF PlaceInv, Untouched, Secure, Captured, Changed, Set, Reads, PutBack
<1> QED
  BY <1>3, <1>6, <1>7, StepOfHolder DEF Places

(* The list of the call is the one captured, not a later one.              *)
LEMMA SetPreloadStep ==
    ASSUME PreloadInv, NEW t \in Threads, SetPreload(t)
    PROVE  PreloadInv'
<1> USE InCall DEF SetPreload
<1> DEFINE list == Combined(schedule.environment, Request(t).entries, Request(t).secure)
<1>1. variables = schedule.environment /\ Agree(captured[t], schedule.environment, Changed(t))
  BY DEF PlaceInv, Untouched, Captured, Places
<1>2. Request(t)' = Request(t)
  BY DEF Request
<1>3. Agree(captured[t], schedule.environment, Preload)
  BY <1>1 DEF Agree, Changed, Names
<1>4. variables' = WithPreload(schedule.environment, list)
  <2>1. Combined(captured[t], Request(t).entries, Request(t).secure) = list
    BY ONLY <1>3, CombinedDependsOnPreload
  <2> QED
    BY <1>1, <2>1
<1>5. IsEnvironment(variables')
  <2>1. IsEnvironment(schedule.environment)
    OBVIOUS
  <2> QED
    BY ONLY <1>4, <2>1, WithPreloadAgrees
<1>6. CASE Request(t).secure
  <2>1. Goes(t, "clear library path") /\ at'[t] = "clear library path"
    BY <1>6 DEF Goes
  <2>2. PlaceInv(t)'
    BY <1>1, <1>2, <1>4, <1>6, <2>1
       DEF PlaceInv, Untouched, Secure, Captured, Changed, Set, Reads, PutBack
  <2> QED
    BY <1>5, <2>1, <2>2, StepOfHolder DEF Places
<1>7. CASE ~Request(t).secure
  <2>1. Goes(t, "read preload") /\ at'[t] = "read preload"
    BY <1>7 DEF Goes
  <2>2. variables' = Intended(t)'
    BY <1>2, <1>4, <1>7 DEF Intended, WithLibraryPath
  <2>3. PlaceInv(t)'
    BY <1>1, <1>2, <1>7, <2>1, <2>2
       DEF PlaceInv, Untouched, Secure, Captured, Changed, Set, Reads, PutBack
  <2> QED
    BY <1>5, <2>1, <2>3, StepOfHolder DEF Places
<1> QED
  BY <1>6, <1>7

LEMMA ClearLibraryPathStep ==
    ASSUME PreloadInv, NEW t \in Threads, ClearLibraryPath(t)
    PROVE  PreloadInv'
<1> USE InCall DEF ClearLibraryPath
<1>1. /\ Request(t).secure /\ Agree(captured[t], schedule.environment, Changed(t))
      /\ variables = WithPreload(schedule.environment,
                         Combined(schedule.environment, Request(t).entries, Request(t).secure))
  BY DEF PlaceInv, Secure, Captured, Set, Places
<1>2. Request(t)' = Request(t)
  BY DEF Request
<1>3. variables' = Intended(t)' /\ IsEnvironment(variables')
  BY <1>1, <1>2, WithLibraryPathIsEnvironment DEF Intended, WithLibraryPath
<1>4. at'[t] = "read preload" /\ Goes(t, "read preload")
  BY DEF Goes
<1>5. PlaceInv(t)'
  BY <1>1, <1>2, <1>3, <1>4 DEF PlaceInv, Untouched, Secure, Captured, Changed, Set, Reads, PutBack
<1> QED
  BY <1>3, <1>4, <1>5, StepOfHolder DEF Places

LEMMA ReadPreloadStep ==
    ASSUME PreloadInv, NEW t \in Threads, ReadPreload(t)
    PROVE  PreloadInv'
<1> USE InCall DEF ReadPreload
<1>1. variables = Intended(t) /\ Agree(captured[t], schedule.environment, Changed(t))
  BY DEF PlaceInv, Captured, Set, Places
<1>2. Request(t)' = Request(t) /\ Intended(t)' = Intended(t)
  BY DEF Request, Intended
<1>3. reads'[t] = Restored(Nothing, Preload, variables) /\ DOMAIN reads' = Threads
  BY DEF Taken, Noted
<1>4. IsEnvironment(Nothing)
  BY DEF IsEnvironment, Nothing
<1>5. IsEnvironment(reads'[t]) /\ Agree(reads'[t], Intended(t), Preload)
  <2>1. IsEnvironment(variables)
    OBVIOUS
  <2> QED
    BY ONLY <1>1, <1>3, <1>4, <2>1, RestoredPreloadAgrees, RestoredIsEnvironment
<1>6. Agree(variables, Intended(t), Library)
  BY <1>1 DEF Agree
<1>7. PICK to \in {"set expanded", "read library path"} : Goes(t, to)
  OBVIOUS
<1>8. at'[t] = to
  BY <1>7 DEF Goes
<1>9. PlaceInv(t)'
  BY <1>1, <1>2, <1>5, <1>6, <1>8
     DEF PlaceInv, Untouched, Secure, Captured, Changed, Set, Reads, PutBack
<1> QED
  BY <1>3, <1>7, <1>9, StepOfHolder DEF Places

LEMMA SetExpandedStep ==
    ASSUME PreloadInv, NEW t \in Threads, SetExpanded(t)
    PROVE  PreloadInv'
<1> USE InCall DEF SetExpanded
<1>1. /\ variables = Intended(t) /\ Agree(captured[t], schedule.environment, Changed(t))
      /\ IsEnvironment(reads[t]) /\ Agree(reads[t], Intended(t), Preload)
  BY DEF PlaceInv, Captured, Set, Reads, Places
<1>2. Request(t)' = Request(t) /\ Intended(t)' = Intended(t)
  BY DEF Request, Intended
<1>3. IsEnvironment(variables') /\ Agree(variables', Intended(t), Library)
  BY <1>1, AssignedAgrees
<1>4. at'[t] = "read library path" /\ Goes(t, "read library path")
  BY DEF Goes
<1>5. PlaceInv(t)'
  BY <1>1, <1>2, <1>3, <1>4
     DEF PlaceInv, Untouched, Secure, Captured, Changed, Set, Reads, PutBack
<1> QED
  BY <1>3, <1>4, <1>5, StepOfHolder DEF Places

LEMMA ReadLibraryPathStep ==
    ASSUME PreloadInv, NEW t \in Threads, ReadLibraryPath(t)
    PROVE  PreloadInv'
<1> USE InCall DEF ReadLibraryPath
<1>1. /\ Agree(variables, Intended(t), Library) /\ Agree(captured[t], schedule.environment, Changed(t))
      /\ IsEnvironment(reads[t]) /\ Agree(reads[t], Intended(t), Preload)
  BY DEF PlaceInv, Captured, Set, Reads, Places
<1>2. Request(t)' = Request(t) /\ Intended(t)' = Intended(t)
  BY DEF Request, Intended
<1>3. reads'[t] = Restored(reads[t], Library, variables) /\ DOMAIN reads' = Threads
  BY DEF Noted
<1>4. Agree(reads'[t], variables, Library) /\ Agree(reads'[t], reads[t], Preload)
  BY ONLY <1>3, RestoredLibraryAgrees
<1>5. Agree(reads'[t], Intended(t), Names)
  <2>1. Agree(reads'[t], Intended(t), Library) /\ Agree(reads'[t], Intended(t), Preload)
    BY ONLY <1>1, <1>4, AgreementJoins
  <2> QED
    BY ONLY <2>1, AgreementOnNames
<1>6. reads'[t] = Intended(t)
  <2>1. IsEnvironment(variables) /\ schedule \in Schedules
    OBVIOUS
  <2>2. IsEnvironment(reads'[t])
    BY ONLY <1>1, <1>3, <2>1, RestoredIsEnvironment
  <2>3. IsEnvironment(Intended(t))
    BY <2>1, IntendedAgrees
  <2> QED
    BY ONLY <1>5, <2>2, <2>3, AgreementIsEquality
<1>7. at'[t] = "returning" /\ Goes(t, "returning")
  BY DEF Goes
<1>8. PlaceInv(t)'
  BY <1>1, <1>2, <1>6, <1>7
     DEF PlaceInv, Untouched, Secure, Captured, Changed, Set, Reads, PutBack
<1> QED
  BY <1>3, <1>7, <1>8, StepOfHolder DEF Places

(* However the resolver ends, LD_LIBRARY_PATH is as the call had set it.   *)
LEMMA LibraryPathOfCall ==
    ASSUME NEW t, NEW e, schedule \in Schedules, ~Request(t).secure, Agree(e, Intended(t), Library)
    PROVE  Agree(e, schedule.environment, Library)
<1>1. Agree(Intended(t), schedule.environment, Library)
  BY IntendedAgrees
<1> QED
  BY ONLY <1>1, Agree(e, Intended(t), Library), AgreementJoins

LEMMA ResolverReturnsStep ==
    ASSUME PreloadInv, NEW t \in Threads, ResolverReturns(t)
    PROVE  PreloadInv'
<1> USE InCall DEF ResolverReturns
<1>1. Agree(variables, Intended(t), Library) /\ Agree(captured[t], schedule.environment, Changed(t))
  BY DEF PlaceInv, Captured, Set, Places
<1>2. Request(t)' = Request(t)
  BY DEF Request
<1>3. IsEnvironment(variables) /\ schedule \in Schedules
  OBVIOUS
<1>4. variables' = Restored(variables, Preload, reads[t])
  OBVIOUS
<1>5. IsEnvironment(variables') /\ Agree(variables', variables, Library)
  BY ONLY <1>3, <1>4, RestoredIsEnvironment, RestoredPreloadAgrees
<1>6. Agree(variables', Intended(t), Library)
  BY ONLY <1>1, <1>5, AgreementJoins
<1>7. ~Request(t).secure => Agree(variables', schedule.environment, Library)
  BY ONLY <1>3, <1>6, LibraryPathOfCall
<1>8. at'[t] = "restore preload" /\ Goes(t, "restore preload")
  BY DEF Goes
<1>9. PlaceInv(t)'
  BY <1>1, <1>2, <1>7, <1>8 DEF PlaceInv, Untouched, Secure, Captured, Changed, Set, Reads, PutBack
<1> QED
  BY <1>5, <1>8, <1>9, StepOfHolder DEF Places

LEMMA ResolverPanicsStep ==
    ASSUME PreloadInv, NEW t \in Threads, ResolverPanics(t)
    PROVE  PreloadInv'
<1> USE InCall DEF ResolverPanics
<1>1. Agree(captured[t], schedule.environment, Changed(t))
  BY DEF PlaceInv, Captured, Places
<1>2. Request(t)' = Request(t)
  BY DEF Request
<1>3. Agree(variables, Intended(t), Library)
  BY DEF PlaceInv, Set, Agree
<1>4. IsEnvironment(variables) /\ schedule \in Schedules
  OBVIOUS
<1>5. ~Request(t).secure => Agree(variables, schedule.environment, Library)
  BY ONLY <1>3, <1>4, LibraryPathOfCall
<1>6. at'[t] = "restore preload" /\ Goes(t, "restore preload")
  BY DEF Goes
<1>7. PlaceInv(t)'
  BY <1>1, <1>2, <1>5, <1>6 DEF PlaceInv, Untouched, Secure, Captured, Changed, Set, Reads, PutBack
<1> QED
  BY <1>4, <1>6, <1>7, StepOfHolder DEF Places

LEMMA RestorePreloadStep ==
    ASSUME PreloadInv, NEW t \in Threads, RestorePreload(t)
    PROVE  PreloadInv'
<1> USE InCall DEF RestorePreload
<1>1. Agree(captured[t], schedule.environment, Changed(t))
  BY DEF PlaceInv, Captured, Places
<1>2. Request(t)' = Request(t)
  BY DEF Request
<1>3. IsEnvironment(variables) /\ IsEnvironment(schedule.environment)
  OBVIOUS
<1>4. variables' = Restored(variables, Preload, captured[t])
  OBVIOUS
<1>5. /\ IsEnvironment(variables') /\ Agree(variables', variables, Library)
      /\ Agree(variables', captured[t], Preload)
  BY ONLY <1>3, <1>4, RestoredIsEnvironment, RestoredPreloadAgrees
<1>6. Agree(captured[t], schedule.environment, Preload)
  BY ONLY <1>1 DEF Agree, Changed, Names
<1>7. Agree(variables', schedule.environment, Preload)
  BY ONLY <1>5, <1>6, AgreementJoins
<1>8. CASE Request(t).secure
  <2>1. Goes(t, "restore library path") /\ at'[t] = "restore library path"
    BY <1>8 DEF Goes
  <2>2. PlaceInv(t)'
    BY <1>1, <1>2, <1>7, <1>8, <2>1
       DEF PlaceInv, Untouched, Secure, Captured, Changed, Set, Reads, PutBack
  <2> QED
    BY <1>5, <2>1, <2>2, StepOfHolder DEF Places
<1>9. CASE ~Request(t).secure
  <2>1. Goes(t, "release") /\ at'[t] = "release"
    BY <1>9 DEF Goes
  <2>2. Agree(variables, schedule.environment, Library)
    BY <1>9 DEF PlaceInv, PutBack
  <2>3. Agree(variables', schedule.environment, Library)
    BY ONLY <1>5, <2>2, AgreementJoins
  <2>4. Agree(variables', schedule.environment, Names)
    BY ONLY <1>7, <2>3, AgreementOnNames
  <2>5. variables' = schedule.environment
    BY ONLY <1>3, <1>5, <2>4, AgreementIsEquality
  <2>6. PlaceInv(t)'
    BY <2>1, <2>5 DEF PlaceInv, Untouched, Secure, Captured, Set, Reads, PutBack, Places
  <2> QED
    BY <1>5, <2>1, <2>6, StepOfHolder DEF Places
<1> QED
  BY <1>8, <1>9

LEMMA RestoreLibraryPathStep ==
    ASSUME PreloadInv, NEW t \in Threads, RestoreLibraryPath(t)
    PROVE  PreloadInv'
<1> USE InCall DEF RestoreLibraryPath
<1>1. /\ Agree(captured[t], schedule.environment, Changed(t)) /\ Request(t).secure
      /\ Agree(variables, schedule.environment, Preload)
  BY DEF PlaceInv, Secure, Captured, PutBack, Places
<1>2. IsEnvironment(variables) /\ IsEnvironment(schedule.environment)
  OBVIOUS
<1>3. variables' = Restored(variables, Library, captured[t])
  OBVIOUS
<1>4. /\ IsEnvironment(variables') /\ Agree(variables', variables, Preload)
      /\ Agree(variables', captured[t], Library)
  BY ONLY <1>2, <1>3, RestoredIsEnvironment, RestoredLibraryAgrees
<1>5. Agree(captured[t], schedule.environment, Library)
  BY ONLY <1>1 DEF Agree, Changed, Names
<1>6. Agree(variables', schedule.environment, Names)
  <2>1. Agree(variables', schedule.environment, Preload)
    BY ONLY <1>1, <1>4, AgreementJoins
  <2>2. Agree(variables', schedule.environment, Library)
    BY ONLY <1>4, <1>5, AgreementJoins
  <2> QED
    BY ONLY <2>1, <2>2, AgreementOnNames
<1>7. variables' = schedule.environment
  BY ONLY <1>2, <1>4, <1>6, AgreementIsEquality
<1>8. at'[t] = "release" /\ Goes(t, "release")
  BY DEF Goes
<1>9. PlaceInv(t)'
  BY <1>7, <1>8 DEF PlaceInv, Untouched, Secure, Captured, Set, Reads, PutBack, Places
<1> QED
  BY <1>4, <1>8, <1>9, StepOfHolder DEF Places

LEMMA ReleaseStep ==
    ASSUME PreloadInv, NEW t \in Threads, Release(t)
    PROVE  PreloadInv'
<1> USE InCall DEF Release
<1>1. variables = schedule.environment /\ holder = t
  BY DEF PlaceInv, Untouched
<1>2. PreloadTypeOK'
  BY DEF PreloadInv, PreloadTypeOK, Goes, Places
<1>3. \A u \in Threads : at'[u] = "outside"
  <2>1. \A u \in Threads \ {t} : at[u] = "outside"
    BY <1>1 DEF PreloadInv, OneCall
  <2> QED
    BY <2>1 DEF Goes
<1>4. OneCall'
  BY <1>3, ScheduleAssumption DEF OneCall
<1>5. \A u \in Threads : PlaceInv(u)'
  BY <1>3 DEF PlaceInv, Untouched, Secure, Captured, Set, Reads, PutBack
<1> QED
  BY <1>1, <1>2, <1>4, <1>5 DEF PreloadInv

-----------------------------------------------------------------------------
LEMMA PreloadInitially == PreloadInit => PreloadInv
<1> SUFFICES ASSUME PreloadInit PROVE PreloadInv
  OBVIOUS
<1> USE DEF PreloadInit
<1>1. PreloadTypeOK
  BY ScheduledEnvironment DEF PreloadTypeOK, Places
<1>2. OneCall
  BY ScheduleAssumption DEF OneCall
<1>3. \A t \in Threads : PlaceInv(t)
  BY DEF PlaceInv, Untouched, Secure, Captured, Set, Reads, PutBack
<1> QED
  BY <1>1, <1>2, <1>3 DEF PreloadInv

LEMMA PreloadStays == PreloadInv /\ UNCHANGED preloadVars => PreloadInv'
<1> SUFFICES ASSUME PreloadInv, UNCHANGED preloadVars PROVE PreloadInv'
  OBVIOUS
<1> USE DEF preloadVars
<1>1. PreloadTypeOK'
  BY DEF PreloadInv, PreloadTypeOK
<1>2. OneCall'
  BY DEF PreloadInv, OneCall
<1>3. \A t \in Threads : PlaceInv(t)'
  BY DEF PreloadInv, PlaceInv, Untouched, Secure, Captured, Changed, Set, Reads, PutBack, Request, Intended
<1> QED
  BY <1>1, <1>2, <1>3 DEF PreloadInv

LEMMA PreloadAlways == PreloadSpec => []PreloadInv
<1>1. PreloadInit => PreloadInv
  BY PreloadInitially
<1>2. PreloadInv /\ [PreloadNext \/ PreloadStopped]_preloadVars => PreloadInv'
  <2> SUFFICES ASSUME PreloadInv, [PreloadNext \/ PreloadStopped]_preloadVars PROVE PreloadInv'
    OBVIOUS
  <2>1. CASE PreloadNext
    <3>1. PICK t \in Threads : ThreadStep(t)
      BY <2>1 DEF PreloadNext
    <3> QED
      BY <3>1, AcquireStep, CapturePreloadStep, CaptureLibraryPathStep, SetPreloadStep,
         ClearLibraryPathStep, ReadPreloadStep, SetExpandedStep, ReadLibraryPathStep,
         ResolverReturnsStep, ResolverPanicsStep, RestorePreloadStep, RestoreLibraryPathStep,
         ReleaseStep DEF ThreadStep
  <2>2. CASE UNCHANGED preloadVars
    BY <2>2, PreloadStays
  <2>3. CASE PreloadStopped
    BY <2>3, PreloadStays DEF PreloadStopped
  <2> QED
    BY <2>1, <2>2, <2>3
<1> QED
  BY <1>1, <1>2, PTL DEF PreloadSpec

(* resolve (system_preload.rs): every place of every thread has the        *)
(* environment it should, and the thread that holds ENVIRONMENT_LOCK is    *)
(* the only one in a call.                                                 *)
THEOREM OneCallAtATime == PreloadSpec => [](PreloadTypeOK /\ OneCall)
<1>1. PreloadInv => PreloadTypeOK /\ OneCall
  BY DEF PreloadInv
<1> QED
  BY <1>1, PreloadAlways, PTL

(* resolve (system_preload.rs): the resolver of a call sees the environment*)
(* of the process with its own request's entries, however the calls of the *)
(* threads interleave, and the environment is back once no call is under   *)
(* way, after a panic of a resolver too.                                   *)
THEOREM CallsHaveTheirEnvironment == PreloadSpec => []EachCallHasItsOwnEnvironment
<1>1. PreloadInv => EachCallHasItsOwnEnvironment
  BY DEF PreloadInv, PlaceInv, Reads, EachCallHasItsOwnEnvironment
<1> QED
  BY <1>1, PreloadAlways, PTL
-----------------------------------------------------------------------------
(* A sequence, of whatever.                                                *)
IsSequence(s) == \E S : s \in Seq(S)

LEMMA SequenceParts ==
    ASSUME NEW s, IsSequence(s)
    PROVE  Len(s) \in Nat /\ DOMAIN s = 1 .. Len(s) /\ (s = <<>> <=> Len(s) = 0)
<1>1. PICK S : s \in Seq(S)
  BY DEF IsSequence
<1> QED
  BY <1>1, LenProperties, EmptySeq

LEMMA EmptyIsSequence == IsSequence(<<>>) /\ Len(<<>>) = 0
    BY EmptySeq DEF IsSequence

LEMMA SingleIsSequence ==
    ASSUME NEW e
    PROVE  IsSequence(<<e>>) /\ Len(<<e>>) = 1 /\ <<e>>[1] = e
<1>1. <<e>> \in Seq({e})
  OBVIOUS
<1> QED
  BY <1>1 DEF IsSequence

LEMMA ListIsSequence ==
    ASSUME NEW n \in Nat, NEW s, s = [k \in 1 .. n |-> s[k]]
    PROVE  IsSequence(s) /\ Len(s) = n
<1> DEFINE S == {s[k] : k \in 1 .. n}
<1>1. s \in [1 .. n -> S]
  OBVIOUS
<1>2. s \in Seq(S)
  BY <1>1, SeqDef
<1>3. Len(s) = n
  <2>1. DOMAIN s = 1 .. n /\ DOMAIN s = 1 .. Len(s) /\ Len(s) \in Nat
    BY <1>1, <1>2, LenProperties
  <2> QED
    BY <2>1
<1> QED
  BY <1>2, <1>3 DEF IsSequence

LEMMA AppendParts ==
    ASSUME NEW s, NEW e, IsSequence(s)
    PROVE  /\ IsSequence(Append(s, e)) /\ Len(Append(s, e)) = Len(s) + 1
           /\ Append(s, e)[Len(s) + 1] = e
           /\ \A k \in 1 .. Len(s) : Append(s, e)[k] = s[k]
<1>1. PICK S : s \in Seq(S)
  BY DEF IsSequence
<1>2. s \in Seq(S \cup {e}) /\ e \in S \cup {e}
  BY <1>1, SeqMonotonic
<1> QED
  BY <1>2, AppendProperties DEF IsSequence

LEMMA ConcatParts ==
    ASSUME NEW s, NEW t, IsSequence(s), IsSequence(t)
    PROVE  /\ IsSequence(s \o t) /\ Len(s \o t) = Len(s) + Len(t)
           /\ \A k \in 1 .. Len(s) : (s \o t)[k] = s[k]
           /\ \A k \in 1 .. Len(t) : (s \o t)[Len(s) + k] = t[k]
<1>1. PICK S : s \in Seq(S)
  BY DEF IsSequence
<1>2. PICK T : t \in Seq(T)
  BY DEF IsSequence
<1> DEFINE U == S \cup T
<1>3. s \in Seq(U) /\ t \in Seq(U)
  BY <1>1, <1>2, SeqMonotonic
<1>4. Len(s) \in Nat /\ Len(t) \in Nat
  BY <1>1, <1>2, LenProperties
<1> HIDE DEF U
<1>5. /\ s \o t \in Seq(U)
      /\ Len(s \o t) = Len(s) + Len(t)
      /\ \A i \in 1 .. Len(s) + Len(t) : (s \o t)[i] = IF i <= Len(s) THEN s[i] ELSE t[i - Len(s)]
  BY <1>3, ConcatProperties
<1>6. IsSequence(s \o t)
  BY <1>5 DEF IsSequence
<1>7. \A k \in 1 .. Len(s) : (s \o t)[k] = s[k]
  BY <1>4, <1>5
<1>8. ASSUME NEW k \in 1 .. Len(t) PROVE (s \o t)[Len(s) + k] = t[k]
  <2>1. Len(s) + k \in 1 .. Len(s) + Len(t) /\ ~(Len(s) + k <= Len(s)) /\ (Len(s) + k) - Len(s) = k
    BY <1>4
  <2> QED
    BY <1>5, <2>1
<1> QED
  BY <1>5, <1>6, <1>7, <1>8

LEMMA TailParts ==
    ASSUME NEW s, IsSequence(s), s # <<>>
    PROVE  /\ IsSequence(Tail(s)) /\ Len(Tail(s)) = Len(s) - 1 /\ Head(s) = s[1]
           /\ \A k \in 1 .. Len(s) - 1 : Tail(s)[k] = s[k + 1]
<1>1. PICK S : s \in Seq(S)
  BY DEF IsSequence
<1>2. Head(s) = s[1]
  BY <1>1
<1> QED
  BY <1>1, <1>2, HeadTailProperties DEF IsSequence

LEMMA FrontParts ==
    ASSUME NEW s, IsSequence(s), s # <<>>
    PROVE  /\ IsSequence(Front(s)) /\ Len(Front(s)) = Len(s) - 1
           /\ \A k \in 1 .. Len(s) - 1 : Front(s)[k] = s[k]
<1>1. PICK S : s \in Seq(S)
  BY DEF IsSequence
<1>2. Len(s) \in Nat \ {0}
  BY <1>1, EmptySeq
<1>3. PICK n \in Nat : n = Len(s) - 1
  BY <1>2
<1>4. Front(s) = SubSeq(s, 1, n)
  BY <1>3 DEF Front
<1>5. \A i \in 1 .. n : s[i] \in S
  BY <1>1, <1>2, <1>3, ElementOfSeq
<1>6. /\ SubSeq(s, 1, n) \in Seq(S)
      /\ Len(SubSeq(s, 1, n)) = IF 1 <= n THEN n - 1 + 1 ELSE 0
      /\ \A i \in 1 .. n - 1 + 1 : SubSeq(s, 1, n)[i] = s[1 + i - 1]
  BY <1>5, SubSeqProperties
<1>7. Len(Front(s)) = n
  BY <1>4, <1>6
<1>8. ASSUME NEW k \in 1 .. n PROVE Front(s)[k] = s[k]
  <2>1. k \in 1 .. n - 1 + 1 /\ 1 + k - 1 = k
    OBVIOUS
  <2> QED
    BY <1>4, <1>6, <2>1
<1> QED
  BY <1>3, <1>4, <1>6, <1>7, <1>8 DEF IsSequence

LEMMA JoinedParts ==
    ASSUME NEW s, NEW t, NEW u, u = s \o t, IsSequence(s), IsSequence(t)
    PROVE  /\ IsSequence(u) /\ Len(u) = Len(s) + Len(t)
           /\ \A k \in 1 .. Len(s) : u[k] = s[k]
           /\ \A k \in 1 .. Len(t) : u[Len(s) + k] = t[k]
    BY ConcatParts

-----------------------------------------------------------------------------
(* The environment is put back: each saved value is of the environment the *)
(* next one was saved of, but for the names that were set.                 *)
TypedEnvironment(e) ==
    IsEnvironment(e) /\ ("LD_LIBRARY_PATH" \in DOMAIN e => IsSequence(e["LD_LIBRARY_PATH"]))
Later(k) == IF k = Len(saved) THEN environment ELSE saved[k + 1].before
EnvInv ==
    /\ request \in Lookups
    /\ IsSequence(saved) /\ TypedEnvironment(environment)
    /\ \A k \in 1 .. Len(saved) :
         TypedEnvironment(saved[k].before) /\ Agree(Later(k), saved[k].before, Names \ saved[k].names)
    /\ saved = <<>> => environment = request.environment
    /\ saved # <<>> => saved[1].before = request.environment
    /\ stage = "exited" => saved = <<>>

LEMMA LibraryStaysTyped ==
    ASSUME NEW e, NEW f, TypedEnvironment(e), IsEnvironment(f), Agree(f, e, Library)
    PROVE  TypedEnvironment(f)
    BY DEF TypedEnvironment, Agree, Library

LEMMA EnvUnchanged ==
    ASSUME EnvInv, UNCHANGED <<request, environment, saved>>, stage' # "exited" \/ stage' = stage
    PROVE  EnvInv'
<1>1. \A k : Later(k)' = Later(k)
  BY DEF Later
<1> QED
  BY <1>1 DEF EnvInv

LEMMA EnvSaved ==
    ASSUME EnvInv, NEW names, request' = request, saved' = Scoped(names), TypedEnvironment(environment'),
           Agree(environment', environment, Names \ names), stage' # "exited"
    PROVE  EnvInv'
<1> DEFINE one == [names |-> names, before |-> environment]
           n == Len(saved)
<1>1. IsSequence(saved) /\ n \in Nat /\ (saved = <<>> <=> n = 0)
  BY SequenceParts DEF EnvInv
<1>2. /\ IsSequence(saved') /\ Len(saved') = n + 1 /\ saved'[n + 1] = one
      /\ \A k \in 1 .. n : saved'[k] = saved[k]
  BY <1>1, AppendParts DEF Scoped
<1>3. ASSUME NEW k \in 1 .. n + 1
      PROVE  TypedEnvironment(saved'[k].before) /\ Agree(Later(k)', saved'[k].before, Names \ saved'[k].names)
  <2>1. CASE k = n + 1
    <3>1. Later(k)' = environment' /\ saved'[k].before = environment /\ saved'[k].names = names
      BY <1>2, <2>1 DEF Later
    <3> QED
      BY <3>1 DEF EnvInv
  <2>2. CASE k \in 1 .. n
    <3>1. saved'[k] = saved[k] /\ k # Len(saved') /\ k + 1 \in 1 .. n + 1
      BY <1>1, <1>2, <2>2
    <3>2. Later(k)' = saved'[k + 1].before
      BY <3>1 DEF Later
    <3>3. Later(k)' = Later(k)
      <4>1. CASE k = n
        BY <1>2, <3>2, <4>1 DEF Later
      <4>2. CASE k # n
        <5>1. k + 1 \in 1 .. n
          BY <1>1, <2>2, <4>2
        <5> QED
          BY <1>2, <3>2, <4>2, <5>1 DEF Later
      <4> QED
        BY <4>1, <4>2
    <3> QED
      BY <2>2, <3>1, <3>3 DEF EnvInv
  <2> QED
    BY <1>1, <2>1, <2>2
<1>4. saved'[1].before = request.environment
  <2>1. CASE n = 0
    BY <1>1, <1>2, <2>1 DEF EnvInv
  <2>2. CASE n # 0
    <3>1. 1 \in 1 .. n
      BY <1>1, <2>2
    <3> QED
      BY <1>1, <1>2, <2>2, <3>1 DEF EnvInv
  <2> QED
    BY <2>1, <2>2
<1>5. saved' # <<>>
  BY <1>1, <1>2, SequenceParts
<1> QED
  BY <1>2, <1>3, <1>4, <1>5 DEF EnvInv

LEMMA RestoredIsBefore ==
    ASSUME NEW e, NEW f, NEW names, IsEnvironment(e), IsEnvironment(f), Agree(e, f, Names \ names)
    PROVE  Restored(e, names, f) = f
<1> DEFINE r == Restored(e, names, f)
<1>1. IsEnvironment(r)
  BY DEF IsEnvironment, Restored, Names
<1>2. Agree(r, f, Names)
  <2>1. DOMAIN r = (DOMAIN e \ names) \cup (names \cap DOMAIN f)
    BY DEF Restored
  <2>2. \A v \in DOMAIN r : r[v] = IF v \in names THEN f[v] ELSE e[v]
    BY DEF Restored
  <2> HIDE DEF r
  <2>3. ASSUME NEW v \in Names PROVE v \in DOMAIN r <=> v \in DOMAIN f
    BY <2>1 DEF Agree
  <2>4. ASSUME NEW v \in Names, v \in DOMAIN r PROVE r[v] = f[v]
    BY <2>1, <2>2, <2>4 DEF Agree
  <2> QED
    BY <2>3, <2>4 DEF Agree
<1> QED
  BY <1>1, <1>2, AgreementIsEquality

LEMMA ReturnStep == EnvInv /\ Return => EnvInv'
<1> SUFFICES ASSUME EnvInv, Return PROVE EnvInv'
  OBVIOUS
<1> DEFINE n == Len(saved)
<1>1. IsSequence(saved) /\ n \in Nat /\ (saved = <<>> <=> n = 0)
  BY SequenceParts DEF EnvInv
<1>2. CASE saved = <<>>
  <2>1. saved' = saved /\ environment' = environment /\ request' = request
    BY <1>2 DEF Return
  <2>2. \A k : Later(k)' = Later(k)
    BY <2>1 DEF Later
  <2> QED
    BY <1>2, <2>1, <2>2 DEF EnvInv
<1>3. CASE saved # <<>>
  <2>1. n \in 1 .. n /\ n - 1 \in Nat
    BY <1>1, <1>3
  <2>2. /\ environment' = Restored(environment, saved[n].names, saved[n].before)
        /\ saved' = Front(saved) /\ stage' = "returning" /\ request' = request
    BY <1>3 DEF Return, Last
  <2>3. TypedEnvironment(saved[n].before) /\ Agree(environment, saved[n].before, Names \ saved[n].names)
    BY <2>1 DEF EnvInv, Later
  <2>4. environment' = saved[n].before
    BY <2>2, <2>3, RestoredIsBefore DEF EnvInv, TypedEnvironment
  <2>5. IsSequence(saved') /\ Len(saved') = n - 1 /\ \A k \in 1 .. n - 1 : saved'[k] = saved[k]
    BY <1>1, <1>3, <2>2, FrontParts
  <2>6. ASSUME NEW k \in 1 .. n - 1
        PROVE  TypedEnvironment(saved'[k].before) /\ Agree(Later(k)', saved'[k].before, Names \ saved'[k].names)
    <3>1. k \in 1 .. n /\ k # n /\ saved'[k] = saved[k]
      BY <1>1, <2>5
    <3>2. Later(k) = saved[k + 1].before
      BY <3>1 DEF Later
    <3>3. Later(k)' = Later(k)
      <4>1. CASE k = n - 1
        <5>1. k + 1 = n
          BY <1>1, <4>1
        <5> QED
          BY <2>4, <2>5, <3>2, <4>1, <5>1 DEF Later
      <4>2. CASE k # n - 1
        <5>1. k + 1 \in 1 .. n - 1
          BY <1>1, <4>2
        <5>2. Later(k)' = saved'[k + 1].before
          BY <2>5, <4>2 DEF Later
        <5> QED
          BY <2>5, <3>2, <5>1, <5>2
      <4> QED
        BY <4>1, <4>2
    <3> QED
      BY <3>1, <3>3 DEF EnvInv
  <2>7. saved' = <<>> => environment' = request.environment
    <3>1. ASSUME saved' = <<>> PROVE n = 1
      BY <1>1, <2>1, <2>5, <3>1, SequenceParts
    <3> QED
      BY <1>3, <2>4, <3>1 DEF EnvInv
  <2>8. saved' # <<>> => saved'[1].before = request.environment
    <3>1. ASSUME saved' # <<>> PROVE 1 \in 1 .. n - 1
      BY <1>1, <2>1, <2>5, <3>1, SequenceParts
    <3> QED
      BY <1>3, <2>5, <3>1 DEF EnvInv
  <2> QED
    BY <2>2, <2>3, <2>4, <2>5, <2>6, <2>7, <2>8 DEF EnvInv
<1> QED
  BY <1>2, <1>3

LEMMA CallSystemPreloadSaves == EnvInv /\ CallSystemPreload => EnvInv'
<1> SUFFICES ASSUME EnvInv, CallSystemPreload PROVE EnvInv'
  OBVIOUS
<1>1. CASE request.file = NotAList
  BY <1>1, EnvUnchanged DEF CallSystemPreload, Fail
<1>2. CASE request.file # NotAList
  <2> DEFINE list == Combined(environment, request.file, request.secure)
             set  == WithPreload(environment, list)
             names == IF request.secure THEN {"LD_PRELOAD", "LD_LIBRARY_PATH"} ELSE {"LD_PRELOAD"}
  <2>1. /\ environment' = WithLibraryPath(set, request.secure) /\ saved' = Scoped(names)
        /\ stage' = "expanding" /\ request' = request
    BY <1>2 DEF CallSystemPreload
  <2>2. TypedEnvironment(environment)
    BY DEF EnvInv
  <2>3. IsEnvironment(set) /\ Agree(set, environment, Library)
    BY <2>2, WithPreloadAgrees DEF TypedEnvironment
  <2>4. TypedEnvironment(set)
    BY <2>2, <2>3, LibraryStaysTyped
  <2> HIDE DEF set
  <2>5. TypedEnvironment(environment') /\ Agree(environment', environment, Names \ names)
    <3>1. CASE request.secure
      <4>1. Names \ names = {}
        BY <3>1 DEF Names, Preload, Library
      <4>2. IsEnvironment(environment')
        BY <2>1, <2>3, WithLibraryPathIsEnvironment
      <4>3. environment' = Removed(set, "LD_LIBRARY_PATH")
        BY <2>1, <3>1 DEF WithLibraryPath
      <4>4. "LD_LIBRARY_PATH" \notin DOMAIN environment'
        BY <4>3 DEF Removed, Restrict
      <4> QED
        BY <4>1, <4>2, <4>4 DEF TypedEnvironment, Agree
    <3>2. CASE ~request.secure
      <4>1. Names \ names \subseteq Library
        BY <3>2 DEF Names, Preload, Library
      <4>2. environment' = set
        BY <2>1, <3>2 DEF WithLibraryPath
      <4> QED
        BY <2>3, <2>4, <4>1, <4>2 DEF Agree
    <3> QED
      BY <3>1, <3>2
  <2> QED
    BY <2>1, <2>5, EnvSaved
<1> QED
  BY <1>1, <1>2

LEMMA ExpandPreloadsSaves == EnvInv /\ ExpandPreloads => EnvInv'
<1> SUFFICES ASSUME EnvInv, ExpandPreloads PROVE EnvInv'
  OBVIOUS
<1>1. CASE UNCHANGED <<request, environment, saved>> /\ stage' # "exited"
  BY <1>1, EnvUnchanged
<1>2. CASE \E list : /\ environment' = Assigned(environment, "LD_PRELOAD", list)
                     /\ saved' = Scoped({"LD_PRELOAD"})
                     /\ request' = request /\ stage' = "preparing"
  <2>1. PICK list : /\ environment' = Assigned(environment, "LD_PRELOAD", list)
                    /\ saved' = Scoped({"LD_PRELOAD"})
                    /\ request' = request /\ stage' = "preparing"
    BY <1>2
  <2>2. TypedEnvironment(environment)
    BY DEF EnvInv
  <2>3. IsEnvironment(environment') /\ Agree(environment', environment, Library)
    BY <2>1, <2>2, AssignedAgrees DEF TypedEnvironment
  <2>4. Names \ {"LD_PRELOAD"} \subseteq Library
    BY DEF Names, Preload, Library
  <2>5. Agree(environment', environment, Names \ {"LD_PRELOAD"})
    BY <2>3, <2>4 DEF Agree
  <2> QED
    BY <2>1, <2>2, <2>3, <2>5, LibraryStaysTyped, EnvSaved
<1> QED
  BY <1>1, <1>2 DEF ExpandPreloads, Fail

-----------------------------------------------------------------------------
(* What was looked at is recorded up to the first image that answers.      *)
EntryOK(entry) ==
    /\ IsSequence(entry.paths) /\ entry.paths # <<>>
    /\ \A i \in 1 .. Len(entry.paths) - 1 : Lookup(entry.paths[i]) = NotFound
    /\ entry.found = Lookup(entry.paths[Len(entry.paths)])

(* The files still to be looked in are not files of what was looked at.    *)
Differ(looked, tasks) ==
    /\ \A j \in 2 .. Len(looked), k \in 1 .. Len(tasks) :
         looked[j].what = "file" /\ tasks[k].what = "file" => Disk[looked[j].paths[1]] # Disk[tasks[k].path]
    /\ \A j, k \in 1 .. Len(tasks) :
         /\ tasks[j].what = "file" /\ tasks[k].what = "file" /\ j # k
         /\ Len(looked) + j >= 2 /\ Len(looked) + k >= 2
         => Disk[tasks[j].path] # Disk[tasks[k].path]
AgendaDiffers == Differ(trail, agenda)
PathsDiffer(paths) == \A j, k \in 1 .. Len(paths) : j # k => Disk[paths[j]] # Disk[paths[k]]

Recorded == IsSequence(trail) /\ \A k \in 1 .. Len(trail) : EntryOK(trail[k])
TrailInv ==
    /\ Recorded
    /\ PreloadsDiffer
    /\ stage \in {"called", "expanding", "preparing", "resolving"} => trail = <<>>
    /\ stage = "resolving" => IsSequence(walk.scope) /\ PathsDiffer(walk.scope)
    /\ stage \in {"next", "opening", "needing"} => IsSequence(agenda) /\ AgendaDiffers
    /\ stage \in {"opening", "needing"} => agenda # <<>> /\ agenda[1].what # "file"
    /\ stage \in {"returning", "exited"} => (output = Refusal \/ FirstAnswer)

LEMMA PathsOf == \A p, e : Task(p, e).what = p /\ Task(p, e).path = e
    BY DEF Task

(* A step that leaves what was looked at.                                  *)
LEMMA TrailUnchanged ==
    ASSUME TrailInv, UNCHANGED <<request, trail>>
    PROVE  Recorded' /\ PreloadsDiffer'
<1>1. \A p : Lookup(p)' = Lookup(p)
  BY DEF Lookup
<1>2. \A e : EntryOK(e)' <=> EntryOK(e)
  BY <1>1 DEF EntryOK
<1>3. PreloadsDiffer' <=> PreloadsDiffer
  BY DEF PreloadsDiffer
<1> QED
  BY <1>2, <1>3 DEF TrailInv, Recorded

LEMMA FailedTrail ==
    ASSUME TrailInv, Fail
    PROVE  TrailInv'
<1> USE DEF Fail
<1>1. Recorded' /\ PreloadsDiffer'
  BY TrailUnchanged
<1>2. stage' = "returning" /\ output' = Refusal
  OBVIOUS
<1> HIDE DEF Fail
<1> QED
  BY <1>1, <1>2 DEF TrailInv

LEMMA AnswersFirst ==
    ASSUME TrailInv, Report
    PROVE  output' # Refusal => FirstAnswer'
<1>1. /\ trail' = trail /\ request' = request
      /\ output' = IF Answers = {} THEN NotFound ELSE trail[Min(Answers)].found
  BY DEF Report
<1>2. \A p : Lookup(p)' = Lookup(p)
  BY <1>1 DEF Lookup
<1>3. \A p : Answer(p)' = Answer(p)
  BY <1>1, <1>2 DEF Answer
<1>4. Examined' = Examined
  BY <1>1 DEF Examined
<1>5. DOMAIN trail = 1 .. Len(trail) /\ Len(trail) \in Nat
  BY SequenceParts DEF TrailInv, Recorded
<1>6. ASSUME NEW p \in Examined
      PROVE  \E k \in DOMAIN trail : \E i \in 1 .. Len(trail[k].paths) :
               p = <<k, i>> /\ p[1] = k /\ p[2] = i /\ Answer(p) = Lookup(trail[k].paths[i])
  <2>1. PICK k \in DOMAIN trail : p \in {k} \X DOMAIN trail[k].paths
    BY DEF Examined
  <2>2. PICK i \in DOMAIN trail[k].paths : p = <<k, i>>
    BY <2>1
  <2>3. i \in 1 .. Len(trail[k].paths)
    BY <1>5, SequenceParts DEF TrailInv, Recorded, EntryOK
  <2>4. p[1] = k /\ p[2] = i
    BY <2>2
  <2> QED
    BY <2>2, <2>3, <2>4 DEF Answer
<1>7. ASSUME NEW k \in DOMAIN trail, NEW i \in 1 .. Len(trail[k].paths), trail[k].found = NotFound
      PROVE  Lookup(trail[k].paths[i]) = NotFound
  <2>1. EntryOK(trail[k])
    BY <1>5 DEF TrailInv, Recorded
  <2>2. Len(trail[k].paths) \in Nat
    BY <2>1, SequenceParts DEF EntryOK
  <2>3. i = Len(trail[k].paths) \/ i \in 1 .. Len(trail[k].paths) - 1
    BY <2>2
  <2> QED
    BY <1>7, <2>1, <2>3 DEF EntryOK
<1>8. CASE Answers = {}
  <2>1. \A k \in DOMAIN trail : trail[k].found = NotFound
    BY <1>8 DEF Answers
  <2>2. \A p \in Examined : Answer(p) = NotFound
    BY <1>6, <1>7, <2>1
  <2> QED
    BY <1>1, <1>3, <1>4, <1>8, <2>2 DEF FirstAnswer
<1>9. CASE Answers # {}
  <2>1. Answers \in SUBSET Nat
    BY <1>5 DEF Answers
  <2>2. PICK m \in Answers : \A k \in Answers : m <= k
    BY <1>9, <2>1, LeastOfSet
  <2>3. Min(Answers) \in Answers /\ \A k \in Answers : Min(Answers) <= k
    BY <2>2 DEF Min
  <2>4. PICK a : a = Min(Answers)
    OBVIOUS
  <2>5. a \in DOMAIN trail /\ trail[a].found # NotFound /\ output' = trail[a].found
    BY <1>1, <1>9, <2>3, <2>4 DEF Answers
  <2>6. \A k \in DOMAIN trail : k < a => trail[k].found = NotFound
    BY <1>5, <2>1, <2>3, <2>4, \A x, y \in Nat : x <= y => ~(y < x) DEF Answers
  <2>7. EntryOK(trail[a])
    BY <1>5, <2>5 DEF TrailInv, Recorded
  <2>8. PICK n : n = Len(trail[a].paths)
    OBVIOUS
  <2>9. n \in Nat /\ n # 0 /\ DOMAIN trail[a].paths = 1 .. n
    BY <2>7, <2>8, SequenceParts DEF EntryOK
  <2>10. PICK p : p = <<a, n>>
    OBVIOUS
  <2>11. p[1] = a /\ p[2] = n
    BY <2>10
  <2>12. p \in {a} \X DOMAIN trail[a].paths
    BY <2>9, <2>10
  <2>13. p \in Examined
    BY <2>5, <2>12 DEF Examined
  <2>14. output' = Answer(p) /\ output' # NotFound
    BY <2>5, <2>7, <2>8, <2>11 DEF Answer, EntryOK
  <2>15. ASSUME NEW q \in Examined, Ahead(q, p) PROVE Answer(q) = NotFound
    <3>1. PICK k \in DOMAIN trail : \E i \in 1 .. Len(trail[k].paths) :
               q = <<k, i>> /\ q[1] = k /\ q[2] = i /\ Answer(q) = Lookup(trail[k].paths[i])
      BY <1>6
    <3>2. PICK i \in 1 .. Len(trail[k].paths) :
               q[1] = k /\ q[2] = i /\ Answer(q) = Lookup(trail[k].paths[i])
      BY <3>1
    <3>3. CASE k < a
      BY <1>7, <2>6, <3>2, <3>3
    <3>4. CASE ~(k < a)
      <4>1. k = a /\ i < n
        BY <2>11, <2>15, <3>2, <3>4 DEF Ahead
      <4>2. i \in 1 .. Len(trail[a].paths) - 1
        BY <2>8, <2>9, <3>2, <4>1
      <4> QED
        BY <2>7, <3>2, <4>1, <4>2 DEF EntryOK
    <3> QED
      BY <3>3, <3>4
  <2>16. \A q \in Examined : Ahead(q, p) => Answer(q) = NotFound
    BY <2>15
  <2> QED
    BY <1>3, <1>4, <2>13, <2>14, <2>16 DEF FirstAnswer
<1> QED
  BY <1>8, <1>9

(* What is looked at moves from the agenda to the trail.                   *)
LEMMA LookedStep ==
    ASSUME TrailInv, stage \in {"next", "opening"}, agenda # <<>>, NEW paths, NEW found,
           Looked(paths, found),
           agenda[1].what = "file" => paths[1] = agenda[1].path,
           EntryOK([what |-> agenda[1].what, paths |-> paths, found |-> found])
    PROVE  TrailInv'
<1> DEFINE entry == [what |-> agenda[1].what, paths |-> paths, found |-> found]
           n == Len(trail)
<1>1. IsSequence(trail) /\ n \in Nat /\ IsSequence(agenda) /\ Len(agenda) \in Nat
  BY SequenceParts DEF TrailInv, Recorded
<1>2. /\ IsSequence(Tail(agenda)) /\ Len(Tail(agenda)) = Len(agenda) - 1 /\ Head(agenda) = agenda[1]
      /\ \A k \in 1 .. Len(agenda) - 1 : Tail(agenda)[k] = agenda[k + 1]
  BY <1>1, TailParts
<1>3. /\ request' = request /\ trail' = Append(trail, entry) /\ agenda' = Tail(agenda)
      /\ stage' = "next" /\ walk' = walk
  BY <1>2 DEF Looked
<1>4. /\ IsSequence(trail') /\ Len(trail') = n + 1 /\ trail'[n + 1] = entry
      /\ \A k \in 1 .. n : trail'[k] = trail[k]
  BY <1>1, <1>3, AppendParts
<1>5. \A e : EntryOK(e)' <=> EntryOK(e)
  <2>1. \A p : Lookup(p)' = Lookup(p)
    BY <1>3 DEF Lookup
  <2> QED
    BY <2>1 DEF EntryOK
<1>6. ASSUME NEW k \in 1 .. n + 1 PROVE EntryOK(trail'[k])
  <2>1. k = n + 1 \/ k \in 1 .. n
    BY <1>1
  <2> QED
    BY <1>4, <2>1 DEF TrailInv, Recorded
<1>7. Recorded'
  BY <1>4, <1>5, <1>6 DEF Recorded
<1>8. entry.what = agenda[1].what /\ entry.paths = paths
  OBVIOUS
<1> HIDE DEF entry
<1>9. 1 \in 1 .. Len(agenda)
  BY <1>1, SequenceParts
<1>10. AgendaDiffers /\ PreloadsDiffer
  BY DEF TrailInv
<1>11. ASSUME NEW j \in 2 .. n + 1, NEW k \in 2 .. n + 1, j # k,
              trail'[j].what = "file", trail'[k].what = "file"
       PROVE  Disk[trail'[j].paths[1]] # Disk[trail'[k].paths[1]]
  <2>1. CASE j \in 2 .. n /\ k \in 2 .. n
    <3>1. j \in 1 .. n /\ k \in 1 .. n
      BY <1>1, <2>1
    <3> QED
      BY <1>4, <1>10, <1>11, <2>1, <3>1 DEF PreloadsDiffer
  <2>2. CASE j \in 2 .. n /\ k = n + 1
    <3>1. j \in 1 .. n
      BY <1>1, <2>2
    <3> QED
      BY <1>4, <1>8, <1>9, <1>10, <1>11, <2>2, <3>1 DEF AgendaDiffers, Differ
  <2>3. CASE j = n + 1 /\ k \in 2 .. n
    <3>1. k \in 1 .. n
      BY <1>1, <2>3
    <3> QED
      BY <1>4, <1>8, <1>9, <1>10, <1>11, <2>3, <3>1 DEF AgendaDiffers, Differ
  <2> QED
    BY <1>1, <1>11, <2>1, <2>2, <2>3
<1>12. PreloadsDiffer'
  BY <1>4, <1>11 DEF PreloadsDiffer
<1>13. ASSUME NEW j \in 2 .. n + 1, NEW k \in 1 .. Len(agenda) - 1,
              trail'[j].what = "file", agenda'[k].what = "file"
       PROVE  Disk[trail'[j].paths[1]] # Disk[agenda'[k].path]
  <2>1. agenda'[k] = agenda[k + 1] /\ k + 1 \in 1 .. Len(agenda) /\ k + 1 # 1
    BY <1>1, <1>2, <1>3
  <2>2. CASE j \in 2 .. n
    <3>1. j \in 1 .. n
      BY <1>1, <2>2
    <3> QED
      BY <1>4, <1>10, <1>13, <2>1, <2>2, <3>1 DEF AgendaDiffers, Differ
  <2>3. CASE j = n + 1
    <3>1. n + 1 >= 2 /\ n + (k + 1) >= 2
      BY <1>1
    <3>2. /\ agenda[1].what = "file" /\ agenda[k + 1].what = "file"
          /\ Disk[trail'[j].paths[1]] = Disk[agenda[1].path]
      BY <1>4, <1>8, <1>13, <2>1, <2>3
    <3> QED
      BY <1>9, <1>10, <2>1, <3>1, <3>2 DEF AgendaDiffers, Differ
  <2> QED
    BY <1>1, <2>2, <2>3
<1>14. ASSUME NEW j \in 1 .. Len(agenda) - 1, NEW k \in 1 .. Len(agenda) - 1, j # k,
              agenda'[j].what = "file", agenda'[k].what = "file"
       PROVE  Disk[agenda'[j].path] # Disk[agenda'[k].path]
  <2>1. /\ agenda'[j] = agenda[j + 1] /\ agenda'[k] = agenda[k + 1]
        /\ j + 1 \in 1 .. Len(agenda) /\ k + 1 \in 1 .. Len(agenda) /\ j + 1 # k + 1
        /\ n + (j + 1) >= 2 /\ n + (k + 1) >= 2
    BY <1>1, <1>2, <1>3, <1>14
  <2> QED
    BY <1>10, <1>14, <2>1 DEF AgendaDiffers, Differ
<1>15. AgendaDiffers'
  <2>1. Len(agenda') = Len(agenda) - 1 /\ Len(trail') = n + 1
    BY <1>2, <1>3, <1>4
  <2> QED
    BY <1>13, <1>14, <2>1 DEF AgendaDiffers, Differ
<1> QED
  BY <1>2, <1>3, <1>7, <1>12, <1>15 DEF TrailInv

LEMMA LookInFileRecorded == TrailInv /\ LookInFile => TrailInv'
<1> SUFFICES ASSUME TrailInv, LookInFile PROVE TrailInv'
  OBVIOUS
<1>1. IsSequence(agenda) /\ agenda # <<>> /\ stage = "next"
  BY DEF TrailInv, LookInFile
<1>2. Head(agenda) = agenda[1]
  BY <1>1, TailParts
<1>3. CASE Fail
  BY <1>3, FailedTrail
<1>4. CASE Looked(<<agenda[1].path>>, Lookup(agenda[1].path))
  <2> DEFINE paths == <<agenda[1].path>>
  <2>1. IsSequence(paths) /\ Len(paths) = 1 /\ paths[1] = agenda[1].path
    BY SingleIsSequence
  <2>2. paths # <<>>
    BY <2>1, SequenceParts
  <2> HIDE DEF paths
  <2>3. PICK e : e = [what |-> agenda[1].what, paths |-> paths, found |-> Lookup(agenda[1].path)]
    OBVIOUS
  <2>4. e.paths = paths /\ e.found = Lookup(agenda[1].path)
    BY <2>3
  <2>5. EntryOK(e)
    <3>1. Len(e.paths) = 1
      BY <2>1, <2>4
    <3>2. ASSUME NEW i \in 1 .. 1 - 1 PROVE FALSE
      OBVIOUS
    <3> QED
      BY <2>1, <2>2, <2>4, <3>1, <3>2 DEF EntryOK
  <2> QED
    BY <1>1, <1>4, <2>1, <2>3, <2>5, LookedStep DEF paths
<1> QED
  BY <1>2, <1>3, <1>4 DEF LookInFile

(* The scope is looked at up to the first image that answers.              *)
LEMMA LookInScopeRecorded ==
    ASSUME TrailInv, LookInScope, IsSequence(walk.scope), walk.scope # <<>>
    PROVE  TrailInv'
<1>1. IsSequence(agenda) /\ agenda # <<>> /\ stage = "opening" /\ agenda[1].what # "file"
  BY DEF TrailInv, LookInScope
<1> DEFINE n == Len(walk.scope)
           paths == [k \in DOMAIN walk.scope |-> walk.scope[k].path]
           stops == {k \in DOMAIN paths : ~Searchable(paths[k]) \/ Lookup(paths[k]) # NotFound}
           Entry1(s, f) == [what |-> agenda[1].what, paths |-> s, found |-> f]
<1>2. n \in Nat /\ n # 0 /\ DOMAIN walk.scope = 1 .. n
  BY SequenceParts
<1>3. DOMAIN paths = 1 .. n /\ paths = [k \in 1 .. n |-> paths[k]]
  BY <1>2
<1>4. IsSequence(paths) /\ Len(paths) = n
  BY <1>2, <1>3, ListIsSequence
<1>5. stops = {} => Looked(paths, NotFound)
  BY DEF LookInScope
<1>6. stops # {} => Fail \/ Looked(SubSeq(paths, 1, Min(stops)), Lookup(paths[Min(stops)]))
  BY DEF LookInScope
<1>7. stops # {} /\ ~Fail => Searchable(paths[Min(stops)])
  BY DEF LookInScope
<1>8. \A k : k \in stops <=> k \in 1 .. n /\ (~Searchable(paths[k]) \/ Lookup(paths[k]) # NotFound)
  BY <1>3
<1> HIDE DEF paths, stops
<1>9. CASE stops = {}
  <2>1. PICK e : e = Entry1(paths, NotFound)
    OBVIOUS
  <2>2. e.paths = paths /\ e.found = NotFound
    BY <2>1
  <2>3. \A k \in 1 .. n : Lookup(paths[k]) = NotFound
    BY <1>8, <1>9
  <2>4. n \in 1 .. n /\ \A i \in 1 .. n - 1 : i \in 1 .. n
    BY <1>2
  <2>5. paths # <<>>
    BY <1>2, <1>4, SequenceParts
  <2>6. EntryOK(e)
    BY <1>4, <2>2, <2>3, <2>4, <2>5 DEF EntryOK
  <2> QED
    BY <1>1, <1>5, <1>9, <2>1, <2>6, LookedStep
<1>10. CASE Fail
  BY <1>10, FailedTrail
<1>11. CASE stops # {} /\ ~Fail
  <2>1. stops \in SUBSET Nat
    BY <1>8
  <2>2. PICK l \in stops : \A k \in stops : l <= k
    BY <1>11, <2>1, LeastOfSet
  <2>3. Min(stops) \in stops /\ \A k \in stops : Min(stops) <= k
    BY <2>2 DEF Min
  <2>4. PICK m : m = Min(stops)
    OBVIOUS
  <2>5. m \in 1 .. n /\ (\A k \in 1 .. n : k < m => k \notin stops)
    BY <1>2, <1>8, <2>3, <2>4, \A x, y \in Nat : x <= y => ~(y < x)
  <2>6. \A k \in 1 .. m - 1 : Lookup(paths[k]) = NotFound
    <3>1. \A k \in 1 .. m - 1 : k \in 1 .. n /\ k < m
      BY <1>2, <2>5
    <3> QED
      BY <1>8, <2>5, <3>1
  <2>7. PICK S : paths \in Seq(S)
    BY <1>4 DEF IsSequence
  <2>8. \A i \in 1 .. m : paths[i] \in S
    BY <1>4, <2>5, <2>7, ElementOfSeq
  <2>9. PICK s : s = SubSeq(paths, 1, m)
    OBVIOUS
  <2>10. s \in Seq(S) /\ Len(s) = m /\ \A i \in 1 .. m : s[i] = paths[i]
    <3>1. /\ s \in Seq(S)
          /\ Len(s) = IF 1 <= m THEN m - 1 + 1 ELSE 0
          /\ \A i \in 1 .. m - 1 + 1 : s[i] = paths[1 + i - 1]
      BY <2>5, <2>8, <2>9, SubSeqProperties
    <3>2. 1 <= m /\ m - 1 + 1 = m /\ \A i \in 1 .. m : 1 + i - 1 = i
      BY <2>5
    <3> QED
      BY <3>1, <3>2
  <2>11. IsSequence(s) /\ s # <<>>
    <3>1. IsSequence(s)
      BY <2>10 DEF IsSequence
    <3> QED
      BY <2>5, <2>10, <3>1, SequenceParts
  <2>12. PICK e : e = Entry1(s, Lookup(paths[m]))
    OBVIOUS
  <2>13. e.paths = s /\ e.found = Lookup(paths[m])
    BY <2>12
  <2>14. EntryOK(e)
    <3>1. m \in 1 .. m /\ \A i \in 1 .. m - 1 : i \in 1 .. m
      BY <2>5
    <3> QED
      BY <2>6, <2>10, <2>11, <2>13, <3>1 DEF EntryOK
  <2>15. Looked(s, Lookup(paths[m]))
    BY <1>6, <1>11, <2>4, <2>9
  <2> QED
    BY <1>1, <2>12, <2>14, <2>15, LookedStep
<1> QED
  BY <1>9, <1>10, <1>11

LEMMA ReportRecorded == TrailInv /\ Report => TrailInv'
<1> SUFFICES ASSUME TrailInv, Report PROVE TrailInv'
  OBVIOUS
<1>1. output' # Refusal => FirstAnswer'
  BY AnswersFirst
<1>2. stage' = "returning" /\ UNCHANGED <<request, trail>>
  BY DEF Report
<1> QED
  BY <1>1, <1>2, TrailUnchanged DEF TrailInv

LEMMA BeginScopeRecorded == TrailInv /\ BeginScope => TrailInv'
<1> SUFFICES ASSUME TrailInv, BeginScope PROVE TrailInv'
  OBVIOUS
<1>1. CASE Fail
  BY <1>1, FailedTrail
<1>2. CASE ~Fail
  <2>1. /\ stage = "next" /\ agenda # <<>> /\ Head(agenda).what # "file"
        /\ stage' = "opening" /\ UNCHANGED <<request, trail, agenda>>
    BY <1>2 DEF BeginScope
  <2>2. Head(agenda) = agenda[1]
    BY <2>1, TailParts DEF TrailInv
  <2>3. AgendaDiffers'
    BY <2>1 DEF TrailInv, AgendaDiffers, Differ
  <2> QED
    BY <2>1, <2>2, <2>3, TrailUnchanged DEF TrailInv
<1> QED
  BY <1>1, <1>2

(* The steps of a scope that is being collected.                           *)
LEMMA CollectingRecorded == TrailInv /\ (OpenImage \/ TakeDependency \/ CloseImage) => TrailInv'
<1> SUFFICES ASSUME TrailInv, OpenImage \/ TakeDependency \/ CloseImage PROVE TrailInv'
  OBVIOUS
<1>1. CASE Fail
  BY <1>1, FailedTrail
<1>2. CASE ~Fail
  <2>1. /\ stage \in {"opening", "needing"} /\ stage' \in {"opening", "needing"}
        /\ UNCHANGED <<request, trail, agenda>>
    BY <1>2 DEF OpenImage, TakeDependency, CloseImage
  <2>2. AgendaDiffers'
    BY <2>1 DEF TrailInv, AgendaDiffers, Differ
  <2> QED
    BY <2>1, <2>2, TrailUnchanged DEF TrailInv
<1> QED
  BY <1>1, <1>2

-----------------------------------------------------------------------------
(* The agenda: the root, and the files of LD_PRELOAD, no file twice.       *)
LEMMA TasksParts ==
    ASSUME NEW w, NEW paths, IsSequence(paths)
    PROVE  /\ IsSequence(Tasks(w, paths)) /\ Len(Tasks(w, paths)) = Len(paths)
           /\ \A k \in 1 .. Len(paths) : Tasks(w, paths)[k].what = w /\ Tasks(w, paths)[k].path = paths[k]
<1>1. Len(paths) \in Nat /\ DOMAIN paths = 1 .. Len(paths)
  BY SequenceParts
<1>2. \A k \in 1 .. Len(paths) : Tasks(w, paths)[k] = Task(w, paths[k])
  BY <1>1 DEF Tasks
<1>3. Tasks(w, paths) = [k \in 1 .. Len(paths) |-> Tasks(w, paths)[k]]
  BY <1>1 DEF Tasks
<1>4. IsSequence(Tasks(w, paths)) /\ Len(Tasks(w, paths)) = Len(paths)
  BY <1>1, <1>3, ListIsSequence
<1> QED
  BY <1>2, <1>4, PathsOf

LEMMA NoFileTwice ==
    ASSUME NEW files, NEW others, NEW last, IsSequence(files), IsSequence(others), last # "file",
           PathsDiffer(files), \A k \in 1 .. Len(others) : others[k].what # "file", NEW root, NEW path,
           NEW tasks, tasks = Tasks("file", <<root>> \o files) \o others \o <<Task(last, path)>>,
           NEW looked, looked = <<>>
    PROVE  IsSequence(tasks) /\ Differ(looked, tasks)
<1>1. PICK n \in Nat : n = Len(files)
  BY SequenceParts
<1>2. PICK m \in Nat : m = Len(others)
  BY SequenceParts
<1> DEFINE all == <<root>> \o files
           first == Tasks("file", all)
           both == first \o others
           end == <<Task(last, path)>>
<1>3. /\ IsSequence(all) /\ Len(all) = n + 1
      /\ \A k \in 1 .. n : all[k + 1] = files[k]
  <2>1. IsSequence(<<root>>) /\ Len(<<root>>) = 1
    BY SingleIsSequence
  <2>2. /\ IsSequence(all) /\ Len(all) = 1 + n
        /\ \A k \in 1 .. n : all[1 + k] = files[k]
    BY <1>1, <2>1, ConcatParts
  <2> QED
    BY <2>2
<1> HIDE DEF all
<1>4. /\ IsSequence(first) /\ Len(first) = n + 1
      /\ \A k \in 1 .. n + 1 : first[k].what = "file" /\ first[k].path = all[k]
  BY <1>3, TasksParts
<1> HIDE DEF first
<1>5. /\ IsSequence(both) /\ Len(both) = n + 1 + m
      /\ \A k \in 1 .. n + 1 : both[k] = first[k]
      /\ \A k \in 1 .. m : both[n + 1 + k] = others[k]
  <2>1. both = first \o others /\ n + 1 \in Nat
    OBVIOUS
  <2> HIDE DEF both
  <2>2. IsSequence(first) /\ IsSequence(others) /\ both = first \o others
    BY <1>4, <2>1
  <2>3. IsSequence(both)
    BY ONLY <2>2, JoinedParts
  <2>4. Len(both) = Len(first) + Len(others)
    BY ONLY <2>2, JoinedParts
  <2>5. \A k \in 1 .. Len(first) : both[k] = first[k]
    BY ONLY <2>2, JoinedParts
  <2>6. \A k \in 1 .. Len(others) : both[Len(first) + k] = others[k]
    BY ONLY <2>2, JoinedParts
  <2> QED
    BY <1>4, <1>2, <2>3, <2>5, <2>6, <2>4, Zenon
<1> HIDE DEF both
<1>6. IsSequence(end) /\ Len(end) = 1 /\ end[1] = Task(last, path)
  BY SingleIsSequence
<1> HIDE DEF end
<1>7. tasks = both \o end
  BY DEF both, first, all, end
<1>8. /\ IsSequence(tasks) /\ Len(tasks) = n + 1 + m + 1
      /\ \A k \in 1 .. n + 1 + m : tasks[k] = both[k]
      /\ tasks[n + 1 + m + 1].what = last
  <2>1. IsSequence(both) /\ IsSequence(end) /\ tasks = both \o end
    BY <1>5, <1>6, <1>7
  <2>2. IsSequence(tasks)
    BY ONLY <2>1, JoinedParts
  <2>3. Len(tasks) = Len(both) + Len(end)
    BY ONLY <2>1, JoinedParts
  <2>4. \A k \in 1 .. Len(both) : tasks[k] = both[k]
    BY ONLY <2>1, JoinedParts
  <2>5. \A k \in 1 .. Len(end) : tasks[Len(both) + k] = end[k]
    BY ONLY <2>1, JoinedParts
  <2>6. Len(both) = n + 1 + m /\ Len(end) = 1
    BY <1>5, <1>6
  <2>7. Len(tasks) = n + 1 + m + 1
    BY ONLY <2>6, <2>3
  <2>8. \A k \in 1 .. n + 1 + m : tasks[k] = both[k]
    BY ONLY <2>6, <2>4
  <2>9. 1 \in 1 .. Len(end)
    BY <2>6
  <2>10. tasks[n + 1 + m + 1] = end[1]
    BY ONLY <2>5, <2>6, <2>9
  <2>11. tasks[n + 1 + m + 1].what = last
    BY ONLY <1>6, <2>10, PathsOf
  <2> QED
    BY ONLY <2>2, <2>7, <2>8, <2>11, Zenon
<1>9. ASSUME NEW k \in 1 .. Len(tasks), tasks[k].what = "file", k >= 2
      PROVE  k - 1 \in 1 .. n /\ tasks[k].path = files[k - 1]
  <2>1. k # n + 1 + m + 1
    BY <1>8, <1>9
  <2>2. k \in 1 .. n + 1 + m
    BY <1>8, <2>1
  <2>3. tasks[k] = both[k]
    BY <1>8, <2>2
  <2>4. CASE k \in 1 .. n + 1
    <3>1. k - 1 \in 1 .. n /\ (k - 1) + 1 = k
      BY <1>9, <2>4
    <3> QED
      BY <1>3, <1>4, <1>5, <2>3, <2>4, <3>1
  <2>5. CASE k \notin 1 .. n + 1
    <3>1. PICK i \in 1 .. m : k = n + 1 + i
      <4>1. k - (n + 1) \in 1 .. m /\ k = n + 1 + (k - (n + 1))
        BY <2>2, <2>5
      <4> QED
        BY <4>1
    <3>2. tasks[k] = others[i]
      BY <1>5, <2>3, <3>1
    <3> QED
      BY <1>9, <1>2, <3>2
  <2> QED
    BY <2>4, <2>5
<1>10. ASSUME NEW j \in 1 .. Len(tasks), NEW k \in 1 .. Len(tasks), j # k, j >= 2, k >= 2,
             tasks[j].what = "file", tasks[k].what = "file"
      PROVE  Disk[tasks[j].path] # Disk[tasks[k].path]
  <2>1. j - 1 \in 1 .. n /\ tasks[j].path = files[j - 1]
    BY <1>9, <1>10
  <2>2. k - 1 \in 1 .. n /\ tasks[k].path = files[k - 1]
    BY <1>9, <1>10
  <2>3. j - 1 # k - 1
    BY <1>10
  <2> QED
    BY <1>1, <2>1, <2>2, <2>3 DEF PathsDiffer
<1>11. Len(looked) = 0
  BY EmptyIsSequence
<1>12. \A k \in 1 .. Len(tasks) : Len(looked) + k = k
  BY <1>11
<1>13. ASSUME NEW j \in 2 .. Len(looked) PROVE FALSE
  BY <1>11
<1>14. \A j \in 2 .. Len(looked), k \in 1 .. Len(tasks) :
         looked[j].what = "file" /\ tasks[k].what = "file" => Disk[looked[j].paths[1]] # Disk[tasks[k].path]
  BY ONLY <1>13
<1>15. \A j, k \in 1 .. Len(tasks) :
         /\ tasks[j].what = "file" /\ tasks[k].what = "file" /\ j # k
         /\ Len(looked) + j >= 2 /\ Len(looked) + k >= 2
         => Disk[tasks[j].path] # Disk[tasks[k].path]
  BY ONLY <1>10, <1>12
<1>16. Differ(looked, tasks)
  BY ONLY <1>14, <1>15 DEF Differ
<1> QED
  BY ONLY <1>8, <1>16

LEMMA OnlyRootStarts ==
    ASSUME NEW tasks, tasks = OnlyRoot, NEW looked, looked = <<>>
    PROVE  IsSequence(tasks) /\ Differ(looked, tasks)
<1>1. IsSequence(tasks) /\ Len(tasks) = 1 /\ tasks[1].what = "scope"
  BY SingleIsSequence, PathsOf DEF OnlyRoot
<1>2. Len(looked) = 0
  BY EmptyIsSequence
<1>3. ASSUME NEW j \in 2 .. Len(looked) PROVE FALSE
  BY <1>2
<1>4. \A k \in 1 .. Len(tasks) : tasks[k].what # "file"
  <2>1. \A k \in 1 .. Len(tasks) : k = 1
    BY <1>1
  <2> QED
    BY <1>1, <2>1
<1> QED
  BY <1>1, <1>3, <1>4 DEF Differ

LEMMA PreloadsResolvedRecorded == TrailInv /\ PreloadsResolved => TrailInv'
<1> SUFFICES ASSUME TrailInv, PreloadsResolved PROVE TrailInv'
  OBVIOUS
<1>1. /\ stage = "resolving" /\ stage' = "next" /\ trail = <<>> /\ UNCHANGED <<request, trail>>
      /\ IsSequence(walk.scope) /\ PathsDiffer(walk.scope)
  BY DEF PreloadsResolved, TrailInv
<1> DEFINE others == IF request.tool \in {"preload-deps", "system-preload"} THEN Tasks("scope", walk.scope) ELSE <<>>
<1>2. IsSequence(others) /\ \A k \in 1 .. Len(others) : others[k].what # "file"
  <2>1. CASE request.tool \in {"preload-deps", "system-preload"}
    BY <1>1, <2>1, TasksParts
  <2>2. CASE request.tool \notin {"preload-deps", "system-preload"}
    <3>1. others = <<>>
      BY <2>2
    <3> QED
      BY <3>1, EmptyIsSequence
  <2> QED
    BY <2>1, <2>2
<1>3. agenda' = Tasks("file", <<request.root>> \o walk.scope) \o others \o <<Task("resort", request.root)>>
  BY DEF PreloadsResolved
<1>4. \A s : PathsDiffer(s) <=> PathsDiffer(s)'
  BY DEF PathsDiffer
<1> HIDE DEF others
<1>5. IsSequence(agenda') /\ AgendaDiffers'
  <2>1. "resort" # "file"
    OBVIOUS
  <2> QED
    BY <1>1, <1>2, <1>3, <2>1, NoFileTwice DEF AgendaDiffers
<1> QED
  BY <1>1, <1>5, TrailUnchanged DEF TrailInv

LEMMA CallsRecorded == TrailInv /\ (Call \/ CallSystemPreload \/ ExpandPreloads) => TrailInv'
<1> SUFFICES ASSUME TrailInv, Call \/ CallSystemPreload \/ ExpandPreloads PROVE TrailInv'
  OBVIOUS
<1>1. CASE Fail
  BY <1>1, FailedTrail
<1>2. CASE Call
  <2>1. /\ stage = "called" /\ stage' \in {"expanding", "preparing", "next"} /\ UNCHANGED <<request, trail>>
        /\ stage' = "next" => agenda' = OnlyRoot
    BY <1>2 DEF Call
  <2>2. trail' = <<>>
    BY <2>1 DEF TrailInv
  <2>3. stage' = "next" => IsSequence(agenda') /\ AgendaDiffers'
    <3>1. OnlyRoot' = OnlyRoot
      BY <2>1 DEF OnlyRoot
    <3> QED
      BY <2>1, <2>2, <3>1, OnlyRootStarts DEF AgendaDiffers
  <2> QED
    BY <2>1, <2>2, <2>3, TrailUnchanged DEF TrailInv
<1>3. CASE ~Fail /\ (CallSystemPreload \/ ExpandPreloads)
  <2>1. /\ stage \in {"called", "expanding"} /\ stage' \in {"expanding", "preparing"}
        /\ UNCHANGED <<request, trail>>
    BY <1>3 DEF CallSystemPreload, ExpandPreloads
  <2> QED
    BY <2>1, TrailUnchanged DEF TrailInv
<1> QED
  BY <1>1, <1>2, <1>3

LEMMA ParsePreloadsRecorded == TrailInv /\ ParsePreloads => TrailInv'
<1> SUFFICES ASSUME TrailInv, ParsePreloads PROVE TrailInv'
  OBVIOUS
<1>1. CASE Fail
  BY <1>1, FailedTrail
<1>2. CASE ~Fail
  <2>1. stage = "preparing" /\ trail = <<>> /\ UNCHANGED <<request, trail>>
    BY <1>2 DEF ParsePreloads, TrailInv
  <2>2. \/ stage' = "next" /\ agenda' = OnlyRoot
        \/ /\ stage' = "resolving"
           /\ walk' = [NoWalk EXCEPT !.loader = EnvDirectories(request.root)]
    BY <1>2 DEF ParsePreloads
  <2>3. stage' = "next" => IsSequence(agenda') /\ AgendaDiffers'
    <3>1. "next" # "resolving"
      OBVIOUS
    <3> QED
      BY <2>1, <2>2, <3>1, OnlyRootStarts DEF AgendaDiffers
  <2>4. stage' = "resolving" => IsSequence(walk'.scope) /\ PathsDiffer(walk'.scope)
    <3>1. ASSUME stage' = "resolving" PROVE walk'.scope = <<>>
      BY <2>2, <3>1 DEF NoWalk
    <3>2. Len(<<>>) = 0 /\ IsSequence(<<>>)
      BY EmptyIsSequence
    <3>3. PICK none : none = <<>>
      OBVIOUS
    <3>4. ASSUME NEW j \in 1 .. Len(none) PROVE FALSE
      BY <3>2, <3>3
    <3>5. PathsDiffer(none)
      BY <3>4 DEF PathsDiffer
    <3> QED
      BY <3>1, <3>2, <3>3, <3>5
  <2>5. PathsDiffer(walk.scope)' <=> PathsDiffer(walk'.scope)
    BY DEF PathsDiffer
  <2> QED
    BY <2>1, <2>2, <2>3, <2>4, <2>5, TrailUnchanged DEF TrailInv
<1> QED
  BY <1>1, <1>2

(* Of two names of one file the first is kept.                             *)
LEMMA KeptDiffer ==
    ASSUME NEW kept, NEW path, IsSequence(kept), PathsDiffer(kept)
    PROVE  IsSequence(DeduplicatePreloadPaths(kept, path)) /\ PathsDiffer(DeduplicatePreloadPaths(kept, path))
<1>1. CASE \E p \in Range(kept) : Disk[p] = Disk[path]
  BY <1>1 DEF DeduplicatePreloadPaths
<1>2. CASE ~(\E p \in Range(kept) : Disk[p] = Disk[path])
  <2>1. PICK s : s = Append(kept, path)
    OBVIOUS
  <2>2. DeduplicatePreloadPaths(kept, path) = s
    BY <1>2, <2>1 DEF DeduplicatePreloadPaths
  <2>3. PICK n \in Nat : n = Len(kept)
    BY SequenceParts
  <2>4. IsSequence(s) /\ Len(s) = n + 1 /\ s[n + 1] = path /\ \A k \in 1 .. n : s[k] = kept[k]
    BY <2>1, <2>3, AppendParts
  <2>5. \A k \in 1 .. n : Disk[kept[k]] # Disk[path]
    BY <1>2, <2>3, SequenceParts DEF Range
  <2>6. ASSUME NEW j \in 1 .. n + 1, NEW k \in 1 .. n + 1, j # k PROVE Disk[s[j]] # Disk[s[k]]
    <3>1. CASE j \in 1 .. n /\ k \in 1 .. n
      BY <2>3, <2>4, <2>6, <3>1 DEF PathsDiffer
    <3>2. CASE j = n + 1 /\ k \in 1 .. n
      BY <2>4, <2>5, <3>2
    <3>3. CASE j \in 1 .. n /\ k = n + 1
      BY <2>4, <2>5, <3>3
    <3> QED
      BY <2>6, <3>1, <3>2, <3>3
  <2>7. PathsDiffer(s)
    BY <2>4, <2>6 DEF PathsDiffer
  <2> QED
    BY <2>2, <2>4, <2>7
<1> QED
  BY <1>1, <1>2

Shape == {"root", "loader", "scope", "at", "parent", "seen", "sonames"}
Shaped(w) == DOMAIN w = Shape /\ w = [f \in Shape |-> w[f]]

LEMMA ResolveNextRecorded == TrailInv /\ Shaped(walk) /\ ResolveNextPreload => TrailInv'
<1> SUFFICES ASSUME TrailInv, Shaped(walk), ResolveNextPreload PROVE TrailInv'
  OBVIOUS
<1>1. CASE Fail
  BY <1>1, FailedTrail
<1>2. CASE ~Fail
  <2> DEFINE path == ResolvePreload(Head(agenda), walk.loader)
  <2>1. /\ stage = "resolving" /\ stage' = "resolving" /\ UNCHANGED <<request, trail>>
        /\ walk' = [walk EXCEPT !.scope = DeduplicatePreloadPaths(@, path)]
    BY <1>2 DEF ResolveNextPreload
  <2>2. IsSequence(walk.scope) /\ PathsDiffer(walk.scope) /\ trail = <<>>
    BY <2>1 DEF TrailInv
  <2> HIDE DEF path
  <2>3. walk'.scope = DeduplicatePreloadPaths(walk.scope, path)
    BY <2>1 DEF Shaped, Shape
  <2>4. IsSequence(walk'.scope) /\ PathsDiffer(walk'.scope)
    BY <2>2, <2>3, KeptDiffer
  <2>5. PathsDiffer(walk.scope)' <=> PathsDiffer(walk'.scope)
    BY DEF PathsDiffer
  <2> QED
    BY <2>1, <2>2, <2>4, <2>5, TrailUnchanged DEF TrailInv
<1> QED
  BY <1>1, <1>2

-----------------------------------------------------------------------------
(* What a search finds is where the first directory of the order has the   *)
(* name, and what a path names is the path.                                *)
LEMMA RegularIsThere ==
    ASSUME NEW p, RegularAt(p) # Refused
    PROVE  RegularAt(p) = p /\ p # Refused /\ p \in DOMAIN Disk /\ Look(p) = "file"
<1>1. RegularAt(p) = p /\ p # Refused /\ Look(p) = "file"
  BY DEF RegularAt
<1>2. p \in DOMAIN Disk
  BY <1>1 DEF Look
<1> QED
  BY <1>1, <1>2

LEMMA MissingIsNotThere ==
    ASSUME NEW p, Look(p) = "missing"
    PROVE  p \notin DOMAIN Disk
    BY DEF Look

LEMMA FirstIsLeast ==
    ASSUME NEW order, NEW name, IsSequence(order), \E k \in DOMAIN order : Occupied(order[k], name)
    PROVE  /\ FirstOccupied(order, name) \in DOMAIN order
           /\ Occupied(order[FirstOccupied(order, name)], name)
           /\ \A j \in 1 .. FirstOccupied(order, name) - 1 : ~Occupied(order[j], name)
<1>1. PICK n \in Nat : DOMAIN order = 1 .. n
  BY SequenceParts
<1> DEFINE T == {k \in DOMAIN order : Occupied(order[k], name)}
<1>2. T \in SUBSET Nat /\ T # {}
  BY <1>1
<1>3. PICK k \in T : \A j \in T : k <= j
  BY <1>2, LeastOfSet
<1>4. ASSUME NEW j \in 1 .. k - 1 PROVE ~Occupied(order[j], name)
  <2>1. j \in DOMAIN order /\ ~(k <= j)
    BY <1>1, <1>3
  <2> QED
    BY <1>3, <2>1
<1>5. \E m \in DOMAIN order : Occupied(order[m], name) /\ \A j \in 1 .. m - 1 : ~Occupied(order[j], name)
  BY <1>3, <1>4
<1> QED
  BY <1>5 DEF FirstOccupied

LEMMA FoundIsFirst ==
    ASSUME NEW order, NEW name, IsSequence(order),
           \E k \in DOMAIN order : Occupied(order[k], name),
           RegularAt(Append(order[FirstOccupied(order, name)], name)) # Refused
    PROVE  /\ Having(order, name) # {}
           /\ RegularAt(Append(order[FirstOccupied(order, name)], name))
                = Append(order[Min(Having(order, name))], name)
<1>1. PICK n \in Nat : DOMAIN order = 1 .. n
  BY SequenceParts
<1>2. PICK k : k = FirstOccupied(order, name)
  OBVIOUS
<1>3. k \in DOMAIN order /\ \A j \in 1 .. k - 1 : ~Occupied(order[j], name)
  BY <1>2, FirstIsLeast
<1>4. RegularAt(Append(order[k], name)) = Append(order[k], name) /\ Append(order[k], name) \in DOMAIN Disk
  BY <1>2, RegularIsThere
<1>5. k \in Having(order, name)
  BY <1>3, <1>4 DEF Having
<1>6. ASSUME NEW j \in Having(order, name) PROVE k <= j
  <2>1. j \in 1 .. n /\ Append(order[j], name) \in DOMAIN Disk
    BY <1>1 DEF Having
  <2>2. Occupied(order[j], name)
    BY <2>1, MissingIsNotThere DEF Occupied
  <2>3. j \notin 1 .. k - 1
    BY <1>3, <2>2
  <2> QED
    BY <1>1, <1>3, <2>1, <2>3
<1>7. Min(Having(order, name)) = k
  <2>1. \E m \in Having(order, name) : \A j \in Having(order, name) : m <= j
    BY <1>5, <1>6
  <2>2. PICK m : m = Min(Having(order, name))
    OBVIOUS
  <2>3. m \in Having(order, name) /\ \A j \in Having(order, name) : m <= j
    BY <2>1, <2>2 DEF Min
  <2>4. m <= k /\ k <= m
    BY <1>5, <1>6, <2>3
  <2>5. m \in Nat /\ k \in Nat
    BY <1>1, <1>3, <2>3 DEF Having
  <2> QED
    BY <2>2, <2>4, <2>5
<1> QED
  BY <1>2, <1>4, <1>5, <1>7

(* An order of directories as the model puts it together.                  *)
LEMMA OrderIsSequence ==
    ASSUME NEW path, NEW inherited, NEW loader, IsSequence(Rpath(path)), IsSequence(inherited),
           IsSequence(loader), IsSequence(Runpath(path))
    PROVE  IsSequence(OrderOf(path, inherited, loader))
<1>1. IsSequence(Rpath(path) \o inherited)
  BY ConcatParts
<1>2. IsSequence((Rpath(path) \o inherited) \o loader)
  BY <1>1, ConcatParts
<1>3. IsSequence(((Rpath(path) \o inherited) \o loader) \o Runpath(path))
  BY <1>2, ConcatParts
<1>4. PICK fallback : fallback = IF NoFallback(path) THEN <<>> ELSE <<request.fallback>>
  OBVIOUS
<1>5. IsSequence(fallback)
  <2>1. fallback = <<>> \/ fallback = <<request.fallback>>
    BY <1>4
  <2> QED
    BY <2>1, EmptyIsSequence, SingleIsSequence
<1>6. IsSequence((((Rpath(path) \o inherited) \o loader) \o Runpath(path)) \o fallback)
  BY <1>3, <1>5, ConcatParts
<1> QED
  BY <1>4, <1>6 DEF OrderOf

LEMMA SearchFinds ==
    ASSUME NEW path, NEW inherited, NEW loader, NEW t, NEW fallback,
           IsSequence(OrderOf(path, inherited, loader)), ~IsPath(t),
           fallback = IF NoFallback(path) THEN <<>> ELSE <<request.fallback>>,
           ResolveDependency(t[1], Rpath(path) \o inherited, loader, Runpath(path), fallback) # Refused
    PROVE  ResolveDependency(t[1], Rpath(path) \o inherited, loader, Runpath(path), fallback)
             = FoundFrom(path, inherited, loader, t)
<1>1. PICK order : order = OrderOf(path, inherited, loader)
  OBVIOUS
<1>2. PICK r : r = ResolveDependency(t[1], Rpath(path) \o inherited, loader, Runpath(path), fallback)
  OBVIOUS
<1>3. r = IF ~Plain(t[1]) \/ \A k \in DOMAIN order : ~Occupied(order[k], t[1]) THEN Refused
          ELSE RegularAt(Append(order[FirstOccupied(order, t[1])], t[1]))
  BY <1>1, <1>2, Zenon DEF ResolveDependency, OrderOf
<1>4. /\ \E k \in DOMAIN order : Occupied(order[k], t[1])
      /\ r = RegularAt(Append(order[FirstOccupied(order, t[1])], t[1]))
  BY <1>2, <1>3
<1>5. Having(order, t[1]) # {} /\ r = Append(order[Min(Having(order, t[1]))], t[1])
  BY <1>1, <1>2, <1>4, FoundIsFirst
<1>6. FoundFrom(path, inherited, loader, t) = Append(order[Min(Having(order, t[1]))], t[1])
  BY <1>1, <1>5, Zenon DEF FoundFrom
<1> QED
  BY <1>2, <1>5, <1>6

LEMMA PathFinds ==
    ASSUME NEW path, NEW inherited, NEW loader, NEW t, IsPath(t)
    PROVE  /\ Rooted(t) /\ AbsoluteDirect(t) # Refused =>
                AbsoluteDirect(t) = FoundFrom(path, inherited, loader, t)
           /\ ~Rooted(t) /\ ExpandDynamicPathEntry(t, Front(path)) # Refused =>
                ExpandDynamicPathEntry(t, Front(path)) = FoundFrom(path, inherited, loader, t)
           /\ t[1] # "$ORIGIN" /\ CwdRelativeDirect(t) # Refused =>
                CwdRelativeDirect(t) = FoundFrom(path, inherited, loader, t)
<1>1. FoundFrom(path, inherited, loader, t) =
        IF t[1] = "$ORIGIN" THEN ExpandDynamicPathEntry(t, Front(path)) ELSE PathAt(t)
  BY DEF FoundFrom
<1>2. Rooted(t) => t[1] # "$ORIGIN"
  BY DEF Rooted
<1>3. ExpandDynamicPathEntry(t, Front(path)) # Refused => t[1] = "$ORIGIN"
  BY DEF ExpandDynamicPathEntry
<1>4. AbsoluteDirect(t) # Refused => AbsoluteDirect(t) = PathAt(t)
  BY DEF AbsoluteDirect
<1>5. CwdRelativeDirect(t) # Refused => CwdRelativeDirect(t) = PathAt(t)
  BY DEF CwdRelativeDirect
<1> QED
  BY <1>1, <1>2, <1>3, <1>4, <1>5

(* What the image at the head of a scope finds for a name it needs.        *)
LEMMA ResolveFinds ==
    ASSUME NEW t, NEW path, NEW inherited, path = Entry.path, inherited = Entry.inherited,
           walk.parent.before = Rpath(path) \o inherited, walk.parent.after = Runpath(path),
           walk.parent.fallback = IF NoFallback(path) THEN <<>> ELSE <<request.fallback>>,
           request.tool \notin SimpleTools,
           IsSequence(OrderOf(path, inherited, walk.loader)), Resolve(t) # Refused
    PROVE  Resolve(t) = FoundFrom(path, inherited, walk.loader, t)
<1> DEFINE p == walk.parent
           searched == ResolveDependency(t[1], p.before, walk.loader, p.after, p.fallback)
<1>1. Resolve(t) = IF request.tool \in LiteralTools
                   THEN ResolveNeededDependency(t, Front(path), p.before, walk.loader, p.after, p.fallback)
                   ELSE ResolveNeededDependencyWithCwdRelative(t, Front(path), p.before, walk.loader, p.after, p.fallback)
  BY DEF Resolve
<1>2. CASE ~IsPath(t)
  <2>1. Resolve(t) = searched
    BY <1>1, <1>2 DEF ResolveNeededDependency, ResolveNeededDependencyWithCwdRelative
  <2>2. PICK fallback : fallback = p.fallback
    OBVIOUS
  <2>3. Resolve(t) = ResolveDependency(t[1], Rpath(path) \o inherited, walk.loader, Runpath(path), fallback)
    BY <2>1, <2>2
  <2>4. fallback = IF NoFallback(path) THEN <<>> ELSE <<request.fallback>>
    BY <2>2
  <2> QED
    BY ONLY <1>2, <2>3, <2>4, Resolve(t) # Refused, IsSequence(OrderOf(path, inherited, walk.loader)), SearchFinds
<1>3. CASE IsPath(t)
  <2>1. PICK x : /\ Resolve(t) = RegularAt(x)
                 /\ \/ Rooted(t) /\ x = AbsoluteDirect(t)
                    \/ ~Rooted(t) /\ x = ExpandDynamicPathEntry(t, Front(path))
                    \/ ~Rooted(t) /\ t[1] # "$ORIGIN" /\ x = CwdRelativeDirect(t)
    BY <1>1, <1>3 DEF ResolveNeededDependency, ResolveNeededDependencyWithCwdRelative
  <2>2. Resolve(t) = x /\ x # Refused
    BY <2>1, RegularIsThere
  <2> QED
    BY <1>3, <2>1, <2>2, PathFinds
<1> QED
  BY <1>2, <1>3

LEMMA SimpleFinds ==
    ASSUME NEW t, NEW path, request.tool \in SimpleTools, Resolve(t) # Refused,
           IsSequence(OrderOf(path, <<>>, <<>>))
    PROVE  Resolve(t) = FoundFrom(path, <<>>, <<>>, t)
<1>1. Resolve(t) = DependencyPath(t, request.fallback)
  BY DEF Resolve, SimpleTools, LiteralTools
<1>2. /\ ~IsPath(t) /\ Plain(t[1])
      /\ Resolve(t) = RegularAt(Append(request.fallback, t[1]))
  BY <1>1 DEF DependencyPath
<1>3. PICK order : order = OrderOf(path, <<>>, <<>>)
  OBVIOUS
<1>4. Len(order) = 1 /\ order[1] = request.fallback
  <2>1. Rpath(path) = <<>> /\ Runpath(path) = <<>> /\ ~NoFallback(path)
    BY DEF Rpath, Runpath, NoFallback, SimpleTools
  <2>2. order = <<>> \o <<>> \o <<>> \o <<>> \o <<request.fallback>>
    BY <1>3, <2>1, Zenon DEF OrderOf
  <2>3. PICK one : one = <<request.fallback>>
    OBVIOUS
  <2>4. IsSequence(one) /\ Len(one) = 1 /\ one[1] = request.fallback
    BY <2>3, SingleIsSequence
  <2>5. one \in Seq({request.fallback})
    BY <2>3
  <2>6. order = one
    BY <2>2, <2>3, <2>5, ConcatEmptySeq
  <2> QED
    BY <2>4, <2>6
<1>5. DOMAIN order = {1}
  <2>1. DOMAIN order = 1 .. 1
    BY <1>3, <1>4, SequenceParts
  <2> QED
    BY <2>1
<1>6. Append(order[1], t[1]) \in DOMAIN Disk /\ Resolve(t) = Append(order[1], t[1])
  BY <1>2, <1>4, RegularIsThere
<1>7. Having(order, t[1]) = {1}
  BY <1>5, <1>6 DEF Having
<1>8. Min({1}) = 1
  BY DEF Min
<1>9. FoundFrom(path, <<>>, <<>>, t) = Append(order[Min(Having(order, t[1]))], t[1])
  <2>1. Having(order, t[1]) # {}
    BY <1>7
  <2> QED
    BY <1>2, <1>3, <2>1, Zenon DEF FoundFrom
<1> QED
  BY <1>6, <1>7, <1>8, <1>9

-----------------------------------------------------------------------------
(* The scope as far as it is collected.                                    *)
Simple == request.tool \in SimpleTools
Inherits(scope) == [k \in DOMAIN scope |-> scope[k].inherited]
Has(scope, loader, j, t) == Supplied(scope, Inherits(scope), loader, j, t)
Needer(scope, loader, o, k) ==
    /\ o < k
    /\ scope[k].inherited = Rpath(scope[o].path) \o scope[o].inherited
    /\ \E t \in NeedsOf(scope, o) : FoundFrom(scope[o].path, scope[o].inherited, loader, t) = scope[k].path
OwnedBy(scope, owner, done, loader) ==
    /\ owner \in [2 .. Len(scope) -> 1 .. done]
    /\ \A k \in 2 .. Len(scope) : Needer(scope, loader, owner[k], k)
    /\ \A j, k \in 2 .. Len(scope) : j < k => owner[j] <= owner[k]
Owned(scope, done, loader) == \E owner : OwnedBy(scope, owner, done, loader)

(* The images opened so far.                                               *)
Done(w, st) == IF st = "needing" THEN w.at ELSE w.at - 1
Lists(w) ==
    /\ IsSequence(w.scope) /\ w.scope # <<>> /\ IsSequence(w.loader)
    /\ \A k \in 1 .. Len(w.scope) : IsSequence(w.scope[k].inherited)
    /\ w.scope[1].inherited = <<>>
    /\ Simple => w.loader = <<>> /\ \A k \in 1 .. Len(w.scope) : w.scope[k].inherited = <<>>
Place(w, st) ==
    /\ w.at \in 1 .. Len(w.scope) + 1
    /\ st = "needing" => w.at \in 1 .. Len(w.scope)
    /\ request.tool = "needed" => Done(w, st) <= 1
Parent(w) ==
    LET path == w.scope[w.at].path
    IN /\ DOMAIN w.parent = {"before", "after", "needed", "fallback"}
       /\ w.parent = [f \in {"before", "after", "needed", "fallback"} |-> w.parent[f]]
       /\ IsSequence(w.parent.needed)
       /\ \A i \in 1 .. Len(w.parent.needed) : w.parent.needed[i] \in NeedsOf(w.scope, w.at)
       /\ IsSequence(Rpath(path)) /\ IsSequence(Runpath(path))
       /\ w.parent.before = Rpath(path) \o w.scope[w.at].inherited /\ w.parent.after = Runpath(path)
       /\ w.parent.fallback = IF NoFallback(path) THEN <<>> ELSE <<request.fallback>>
Needs(w, st) ==
    /\ \A j \in 1 .. w.at - 1 : \A t \in NeedsOf(w.scope, j) : Has(w.scope, w.loader, j, t)
    /\ st = "needing" =>
         \A t \in NeedsOf(w.scope, w.at) :
            (\E i \in 1 .. Len(w.parent.needed) : w.parent.needed[i] = t) \/ Has(w.scope, w.loader, w.at, t)
    /\ \A t \in w.seen : Has(w.scope, w.loader, Done(w, st), t)
Sonames(w, st) ==
    /\ \A n \in w.sonames : n # NoText /\ \E k \in 1 .. Len(w.scope) : SonameOf(w.scope, k) = n
    /\ ~Simple => \A k \in 1 .. Len(w.scope) :
                     k >= 2 \/ k <= Done(w, st) => SonameOf(w.scope, k) \in w.sonames \cup {NoText}
    /\ SonamesDiffer(w.scope)
Collected(w, st) ==
    /\ Lists(w) /\ Place(w, st) /\ Owned(w.scope, Done(w, st), w.loader)
    /\ st = "needing" => Parent(w)
    /\ Needs(w, st) /\ Sonames(w, st)
WalkOK(w, st) == Shaped(w) /\ (st \in {"opening", "needing"} => Collected(w, st))
ScopeInv == WalkOK(walk, stage)

(* What was supplied stays supplied: to a longer scope, to later images.   *)
LEMMA OpenedOf ==
    ASSUME NEW scope, IsSequence(scope), scope # <<>>
    PROVE  /\ OpenedImages(scope) \subseteq 1 .. Len(scope) /\ DOMAIN scope = 1 .. Len(scope)
           /\ request.tool # "needed" => OpenedImages(scope) = 1 .. Len(scope)
           /\ request.tool = "needed" => OpenedImages(scope) = {1}
<1>1. Len(scope) \in Nat /\ Len(scope) # 0 /\ DOMAIN scope = 1 .. Len(scope)
  BY SequenceParts
<1>2. 1 \in 1 .. Len(scope)
  BY <1>1
<1> QED
  BY <1>1, <1>2 DEF OpenedImages

LEMMA HasLater ==
    ASSUME NEW scope, NEW loader, NEW i \in Int, NEW j \in Int, i <= j, NEW t, Has(scope, loader, i, t),
           IsSequence(scope), scope # <<>>
    PROVE  Has(scope, loader, j, t)
<1>1. \A k \in OpenedImages(scope) : k \in Int
  BY OpenedOf
<1>2. \A k \in OpenedImages(scope) : k <= i => k <= j
  BY <1>1
<1> QED
  BY <1>2, Zenon DEF Has, Supplied

LEMMA HasLonger ==
    ASSUME NEW scope, NEW longer, NEW loader, NEW j, NEW t, Has(scope, loader, j, t),
           IsSequence(scope), IsSequence(longer), scope # <<>>, Len(longer) = Len(scope) + 1,
           \A k \in 1 .. Len(scope) : longer[k] = scope[k]
    PROVE  Has(longer, loader, j, t)
<1>1. PICK n \in Nat : n = Len(scope) /\ n # 0 /\ Len(longer) = n + 1
  BY SequenceParts
<1>2. longer # <<>>
  BY <1>1, SequenceParts
<1>3. DOMAIN scope = 1 .. n /\ DOMAIN longer = 1 .. n + 1
  BY <1>1, SequenceParts
<1>4. \A i \in OpenedImages(scope) : i \in 1 .. n /\ i \in OpenedImages(longer)
  <2>1. \A i \in 1 .. n : i \in 1 .. n + 1
    OBVIOUS
  <2> QED
    BY <1>1, <1>2, <2>1, OpenedOf
<1>5. \A k \in 1 .. n : k \in DOMAIN longer /\ SonameOf(longer, k) = SonameOf(scope, k) /\ longer[k].path = scope[k].path
  BY <1>1, <1>3 DEF SonameOf
<1>6. \A i \in 1 .. n : NeedsOf(longer, i) = NeedsOf(scope, i)
  BY <1>1 DEF NeedsOf
<1>7. \A i \in 1 .. n : Finds(longer, Inherits(longer), loader, i, t) = Finds(scope, Inherits(scope), loader, i, t)
  <2>1. \A i \in 1 .. n : Inherits(longer)[i] = Inherits(scope)[i]
    BY <1>1, <1>3 DEF Inherits
  <2> QED
    BY <1>1, <2>1 DEF Finds
<1>8. PICK k \in 1 .. n :
        \/ request.tool \notin SimpleTools /\ SonameOf(scope, k) # NoText /\ SonameOf(scope, k) = t
        \/ \E i \in OpenedImages(scope) : i <= j /\ Supplies(scope, Inherits(scope), loader, k, i, t)
  BY <1>3, Zenon DEF Has, Supplied
<1>9. ASSUME NEW i \in OpenedImages(scope), Supplies(scope, Inherits(scope), loader, k, i, t)
      PROVE  i \in OpenedImages(longer) /\ Supplies(longer, Inherits(longer), loader, k, i, t)
  <2>1. i \in 1 .. n /\ i \in OpenedImages(longer)
    BY <1>4
  <2> QED
    BY <1>5, <1>6, <1>7, <1>9, <2>1 DEF Supplies
<1> QED
  BY <1>5, <1>8, <1>9, Zenon DEF Has, Supplied

(* The request stays, and with it what it says of a scope.                 *)
LEMMA ScopeInvNext ==
    ASSUME request' = request, WalkOK(walk', stage')
    PROVE  ScopeInv'
<1>1. \A p : Rpath(p)' = Rpath(p) /\ Runpath(p)' = Runpath(p) /\ NoFallback(p)' = NoFallback(p)
  BY DEF Rpath, Runpath, NoFallback, Directories
<1>2. ASSUME NEW p, NEW inh, NEW loader, NEW t
      PROVE  FoundFrom(p, inh, loader, t)' = FoundFrom(p, inh, loader, t)
  <2>1. OrderOf(p, inh, loader)' = OrderOf(p, inh, loader)
    BY <1>1, Zenon DEF OrderOf
  <2> QED
    BY <2>1 DEF FoundFrom
<1>3. Simple' = Simple /\ \A s : OpenedImages(s)' = OpenedImages(s)
  BY DEF Simple, OpenedImages
<1>4. \A s, inh, loader, k, i, t : Supplies(s, inh, loader, k, i, t)' = Supplies(s, inh, loader, k, i, t)
  BY <1>2 DEF Supplies, Finds
<1>5. \A s, loader, j, t : Has(s, loader, j, t)' = Has(s, loader, j, t)
  BY <1>3, <1>4 DEF Has, Supplied, Inherits
<1>6. ASSUME NEW s, NEW loader, NEW o, NEW k
      PROVE  Needer(s, loader, o, k)' = Needer(s, loader, o, k)
  <2>1. Rpath(s[o].path)' = Rpath(s[o].path)
    BY <1>1
  <2>2. NeedsOf(s, o)' = NeedsOf(s, o)
    BY DEF NeedsOf
  <2>3. \A t : FoundFrom(s[o].path, s[o].inherited, loader, t)' = FoundFrom(s[o].path, s[o].inherited, loader, t)
    BY <1>2
  <2> QED
    BY <2>1, <2>2, <2>3 DEF Needer
<1>7. \A s, done, loader : Owned(s, done, loader)' = Owned(s, done, loader)
  BY <1>6 DEF Owned, OwnedBy
<1>8. \A s : SonamesDiffer(s)' = SonamesDiffer(s)
  BY DEF SonamesDiffer
<1>9. Lists(walk)' = Lists(walk')
  BY <1>3 DEF Lists
<1>10. Place(walk, stage)' = Place(walk', stage')
  BY DEF Place, Done
<1>11. Parent(walk)' = Parent(walk')
  BY <1>1 DEF Parent
<1>12. Needs(walk, stage)' = Needs(walk', stage')
  BY <1>5 DEF Needs, Done
<1>13. Sonames(walk, stage)' = Sonames(walk', stage')
  BY <1>3, <1>8 DEF Sonames, Done
<1>14. Owned(walk.scope, Done(walk, stage), walk.loader)' = Owned(walk'.scope, Done(walk', stage'), walk'.loader)
  BY <1>7 DEF Done
<1>15. Collected(walk, stage)' = Collected(walk', stage')
  BY <1>9, <1>10, <1>11, <1>12, <1>13, <1>14 DEF Collected
<1> QED
  BY <1>15 DEF ScopeInv, WalkOK, Shaped

LEMMA MappedIsSequence ==
    ASSUME NEW list, NEW mapped, IsSequence(list), mapped = [k \in DOMAIN list |-> mapped[k]]
    PROVE  IsSequence(mapped) /\ Len(mapped) = Len(list)
<1>1. Len(list) \in Nat /\ DOMAIN list = 1 .. Len(list)
  BY SequenceParts
<1> QED
  BY <1>1, ListIsSequence

LEMMA DirectoriesAreSequence ==
    ASSUME NEW list, NEW origin, IsSequence(list)
    PROVE  /\ IsSequence(DynamicPathDirectories(list, origin))
           /\ IsSequence(AbsoluteDynamicPathDirectories(list, origin))
           /\ IsSequence(NormalizeLoaderPath(list)) /\ IsSequence(ExpandLoaderPath(list, origin))
           /\ IsSequence(LoaderPathDirectories(list))
<1>1. PICK a : a = DynamicPathDirectories(list, origin)
  OBVIOUS
<1>2. a = [k \in DOMAIN list |-> a[k]]
  BY <1>1 DEF DynamicPathDirectories
<1>3. PICK b : b = AbsoluteDynamicPathDirectories(list, origin)
  OBVIOUS
<1>4. b = [k \in DOMAIN list |-> b[k]]
  BY <1>3 DEF AbsoluteDynamicPathDirectories
<1>5. PICK c : c = NormalizeLoaderPath(list)
  OBVIOUS
<1>6. c = [k \in DOMAIN list |-> c[k]]
  BY <1>5 DEF NormalizeLoaderPath
<1>7. PICK d : d = ExpandLoaderPath(list, origin)
  OBVIOUS
<1>8. d = [k \in DOMAIN list |-> d[k]]
  BY <1>7 DEF ExpandLoaderPath
<1>9. PICK e : e = LoaderPathDirectories(list)
  OBVIOUS
<1>10. e = [k \in DOMAIN list |-> e[k]]
  BY <1>9 DEF LoaderPathDirectories
<1>11. IsSequence(a) /\ IsSequence(b) /\ IsSequence(c) /\ IsSequence(d) /\ IsSequence(e)
  BY ONLY IsSequence(list), <1>2, <1>4, <1>6, <1>8, <1>10, MappedIsSequence
<1> QED
  BY <1>1, <1>3, <1>5, <1>7, <1>9, <1>11

LEMMA LoaderIsSequence ==
    ASSUME EnvInv, NEW root
    PROVE  IsSequence(LoaderDirectories(root)) /\ (Simple => LoaderDirectories(root) = <<>>)
<1>1. IsSequence(request.option)
  <2>1. request.option \in Seq(Text)
    BY LookupAssumption DEF EnvInv
  <2> QED
    BY <2>1 DEF IsSequence
<1>2. IsSequence(EnvDirectories(root))
  <2>1. CASE "LD_LIBRARY_PATH" \notin DOMAIN environment \/ (request.secure /\ request.tool # "system-preload")
    BY <2>1, EmptyIsSequence DEF EnvDirectories
  <2>2. CASE ~("LD_LIBRARY_PATH" \notin DOMAIN environment \/ (request.secure /\ request.tool # "system-preload"))
    <3>1. PICK l : l = environment["LD_LIBRARY_PATH"]
      OBVIOUS
    <3>2. IsSequence(l)
      BY <2>2, <3>1 DEF EnvInv, TypedEnvironment
    <3>3. EnvDirectories(root) = LoaderPathDirectories(ExpandLoaderPath(NormalizeLoaderPath(l), Front(root)))
      BY <2>2, <3>1 DEF EnvDirectories, Normalize
    <3> QED
      BY <3>2, <3>3, DirectoriesAreSequence
  <2> QED
    BY <2>1, <2>2
<1>3. CASE Simple
  <2>1. LoaderDirectories(root) = <<>>
    BY <1>3 DEF LoaderDirectories, Simple, SimpleTools, EnvTools, TokenTools
  <2> QED
    BY <2>1, EmptyIsSequence
<1>4. CASE ~Simple
  <2>1. \/ LoaderDirectories(root) = EnvDirectories(root)
        \/ LoaderDirectories(root) = LoaderPathDirectories(ExpandLoaderPath(request.option, Front(root)))
        \/ LoaderDirectories(root) =
             LoaderPathDirectories(ExpandLoaderPath(NormalizeLoaderPath(request.option), Front(root)))
        \/ LoaderDirectories(root) = LoaderPathDirectories(request.option)
    BY <1>4 DEF LoaderDirectories, Simple
  <2>2. /\ IsSequence(LoaderPathDirectories(request.option))
        /\ IsSequence(LoaderPathDirectories(ExpandLoaderPath(request.option, Front(root))))
        /\ IsSequence(LoaderPathDirectories(ExpandLoaderPath(NormalizeLoaderPath(request.option), Front(root))))
    BY <1>1, DirectoriesAreSequence
  <2> QED
    BY <1>2, <1>4, <2>1, <2>2
<1> QED
  BY <1>3, <1>4

LEMMA BeginScopeCollects == EnvInv /\ ScopeInv /\ BeginScope => ScopeInv'
<1> SUFFICES ASSUME EnvInv, ScopeInv, BeginScope PROVE ScopeInv'
  OBVIOUS
<1>1. CASE Fail
  <2>1. request' = request /\ walk' = walk /\ stage' = "returning"
    BY <1>1 DEF Fail
  <2>2. WalkOK(walk', stage')
    BY <2>1 DEF ScopeInv, WalkOK
  <2> QED
    BY <2>1, <2>2, ScopeInvNext
<1>2. CASE ~Fail
  <2>1. PICK root : root = Head(agenda).path
    OBVIOUS
  <2>2. PICK loader : loader = LoaderDirectories(root)
    OBVIOUS
  <2>3. PICK first : first = [path |-> root, inherited |-> <<>>]
    OBVIOUS
  <2>4. /\ walk' = [NoWalk EXCEPT !.root = root, !.loader = loader, !.scope = <<first>>]
        /\ stage' = "opening" /\ request' = request
    BY <1>2, <2>1, <2>2, <2>3 DEF BeginScope
  <2>5. PICK s : s = <<first>>
    OBVIOUS
  <2>6. IsSequence(s) /\ Len(s) = 1 /\ s[1] = first /\ first.inherited = <<>> /\ s # <<>>
    <3>1. IsSequence(s) /\ Len(s) = 1 /\ s[1] = first
      BY <2>5, SingleIsSequence
    <3> QED
      BY <2>3, <3>1, SequenceParts
  <2>7. PICK w : w = walk'
    OBVIOUS
  <2>8. Shaped(w) /\ w.loader = loader /\ w.scope = s /\ w.at = 1 /\ w.seen = {} /\ w.sonames = {}
    BY <2>4, <2>5, <2>7 DEF NoWalk, Shaped, Shape
  <2>9. IsSequence(loader) /\ (Simple => loader = <<>>)
    BY <2>2, LoaderIsSequence
  <2>10. \A k \in 1 .. Len(s) : k = 1
    BY <2>6
  <2>11. Lists(w)
    BY <2>6, <2>8, <2>9, <2>10, EmptyIsSequence DEF Lists
  <2>12. Done(w, "opening") = 0 /\ Place(w, "opening")
    BY <2>6, <2>8 DEF Done, Place
  <2>13. Owned(s, 0, loader)
    <3>1. \A k \in 2 .. Len(s) : FALSE
      BY <2>6
    <3>2. PICK o : o = [k \in 2 .. Len(s) |-> 1]
      OBVIOUS
    <3>3. o \in [2 .. Len(s) -> 1 .. 0]
      BY <3>1, <3>2
    <3> QED
      BY <3>1, <3>3 DEF Owned, OwnedBy
  <2>14. Needs(w, "opening")
    <3>1. \A j \in 1 .. 1 - 1 : FALSE
      OBVIOUS
    <3> QED
      BY <2>8, <3>1 DEF Needs
  <2>15. Sonames(w, "opening")
    <3>1. SonamesDiffer(s)
      BY <2>6, <2>10, SequenceParts DEF SonamesDiffer
    <3>2. \A k \in 1 .. Len(s) : ~(k >= 2 \/ k <= 0)
      BY <2>10
    <3> QED
      BY <2>8, <2>12, <3>1, <3>2 DEF Sonames
  <2>16. WalkOK(walk', stage')
    <3>1. Collected(w, "opening")
      BY <2>8, <2>11, <2>12, <2>13, <2>14, <2>15 DEF Collected
    <3> QED
      BY <2>4, <2>7, <2>8, <3>1 DEF WalkOK
  <2> QED
    BY <2>4, <2>16, ScopeInvNext
<1> QED
  BY <1>1, <1>2

(* What an image says of its dependencies, once it can be read.            *)
LEMMA ImageLists ==
    ASSUME NEW path, Readable(path)
    PROVE  /\ IsSequence(ImageAt(path).needed)
           /\ IsSequence(Rpath(path)) /\ IsSequence(Runpath(path))
<1>1. PICK image : image = ImageAt(path)
  OBVIOUS
<1>2. image.needed \in Seq(Text) /\ image.rpath \in Seq(Text) /\ image.runpath \in Seq(Text)
  BY <1>1, LookupAssumption DEF Readable, ImageAt
<1>3. IsSequence(image.needed) /\ IsSequence(image.rpath) /\ IsSequence(image.runpath)
  BY <1>2 DEF IsSequence
<1>4. IsSequence(Directories(image.rpath, path)) /\ IsSequence(Directories(image.runpath, path))
  BY <1>3, DirectoriesAreSequence DEF Directories
<1> QED
  BY <1>1, <1>3, <1>4, EmptyIsSequence DEF Rpath, Runpath

LEMMA OpenImageCollects == ScopeInv /\ OpenImage => ScopeInv'
<1> SUFFICES ASSUME ScopeInv, OpenImage PROVE ScopeInv'
  OBVIOUS
<1>1. CASE Fail
  <2>1. request' = request /\ walk' = walk /\ stage' = "returning"
    BY <1>1 DEF Fail
  <2>2. WalkOK(walk', stage')
    BY <2>1 DEF ScopeInv, WalkOK
  <2> QED
    BY <2>1, <2>2, ScopeInvNext
<1>2. CASE ~Fail
  <2>1. PICK s : s = walk.scope
    OBVIOUS
  <2>2. PICK head : head = walk.at
    OBVIOUS
  <2>3. PICK path : path = s[head].path
    OBVIOUS
  <2>4. PICK image : image = ImageAt(path)
    OBVIOUS
  <2>5. PICK paths : paths = SearchPaths(path, s[head].inherited)
    OBVIOUS
  <2>6. PICK parent : parent = [before |-> paths.before, after |-> paths.after, needed |-> image.needed,
                                fallback |-> IF NoFallback(path) THEN <<>> ELSE <<request.fallback>>]
    OBVIOUS
  <2>7. /\ stage = "opening" /\ ~Opened /\ Readable(path) /\ stage' = "needing" /\ request' = request
        /\ walk' = [walk EXCEPT !.sonames = @ \cup ({image.soname} \ {NoText}), !.parent = parent]
    BY <1>2, <2>1, <2>2, <2>3, <2>4, <2>5, <2>6 DEF OpenImage, Entry
  <2>8. Shaped(walk) /\ Collected(walk, "opening")
    BY <2>7 DEF ScopeInv, WalkOK
  <2>9. PICK w : w = walk'
    OBVIOUS
  <2>10. /\ Shaped(w) /\ w.scope = s /\ w.at = head /\ w.loader = walk.loader /\ w.seen = walk.seen
         /\ w.sonames = walk.sonames \cup ({image.soname} \ {NoText}) /\ w.parent = parent
    BY <2>1, <2>2, <2>7, <2>8, <2>9 DEF Shaped, Shape
  <2>11. /\ Lists(walk) /\ Place(walk, "opening") /\ Owned(s, head - 1, walk.loader)
         /\ Needs(walk, "opening") /\ Sonames(walk, "opening")
    BY <2>1, <2>2, <2>8 DEF Collected, Done
  <2>12. PICK n \in Nat : n = Len(s)
    BY <2>1, <2>11, SequenceParts DEF Lists
  <2>13. head \in 1 .. n /\ (request.tool = "needed" => head <= 1)
    BY <2>1, <2>2, <2>7, <2>11, <2>12 DEF Place, Opened
  <2>14. Lists(w)
    BY <2>1, <2>10, <2>11 DEF Lists
  <2>15. Place(w, "needing")
    BY <2>10, <2>12, <2>13 DEF Place, Done
  <2>16. Owned(s, head, walk.loader)
    <3>1. PICK owner : OwnedBy(s, owner, head - 1, walk.loader)
      BY <2>11 DEF Owned
    <3>2. 1 .. head - 1 \subseteq 1 .. head
      BY <2>13
    <3>3. owner \in [2 .. Len(s) -> 1 .. head]
      BY <3>1, <3>2 DEF OwnedBy
    <3> QED
      BY <3>1, <3>3 DEF Owned, OwnedBy
  <2>17. IsSequence(image.needed) /\ IsSequence(Rpath(path)) /\ IsSequence(Runpath(path))
    BY <2>4, <2>7, ImageLists
  <2>18. paths.before = Rpath(path) \o s[head].inherited /\ paths.after = Runpath(path)
    <3>1. CASE Simple
      <4>1. Rpath(path) = <<>> /\ Runpath(path) = <<>> /\ s[head].inherited = <<>>
        BY <2>1, <2>11, <2>12, <2>13, <3>1 DEF Rpath, Runpath, Lists, Simple
      <4>2. PICK none : none = <<>>
        OBVIOUS
      <4>3. none \in Seq({1})
        BY <4>2
      <4>4. none \o none = none
        BY <4>2, <4>3, ConcatEmptySeq
      <4>5. paths.before = <<>> /\ paths.after = <<>>
        BY <2>5, <3>1 DEF SearchPaths, Simple
      <4> QED
        BY <4>1, <4>2, <4>4, <4>5
    <3>2. CASE ~Simple
      <4>1. paths.before = Inherited(path, s[head].inherited) /\ paths.after = Directories(ImageAt(path).runpath, path)
        BY <2>5, <3>2 DEF SearchPaths, Simple
      <4>2. Rpath(path) = IF ImageAt(path).runpath # <<>> THEN <<>> ELSE Directories(ImageAt(path).rpath, path)
        BY <3>2 DEF Rpath, Simple
      <4> QED
        BY <3>2, <4>1, <4>2 DEF Inherited, Runpath, Simple
    <3> QED
      BY <3>1, <3>2
  <2>19. Range(image.needed) = NeedsOf(s, head)
    BY <2>3, <2>4 DEF NeedsOf
  <2>20. /\ \A i \in 1 .. Len(image.needed) : image.needed[i] \in NeedsOf(s, head)
         /\ \A t \in NeedsOf(s, head) : \E i \in 1 .. Len(image.needed) : image.needed[i] = t
    BY <2>17, <2>19, SequenceParts DEF Range
  <2>21. Parent(w)
    <3>1. /\ DOMAIN parent = {"before", "after", "needed", "fallback"}
          /\ parent = [f \in {"before", "after", "needed", "fallback"} |-> parent[f]]
      BY <2>6
    <3>2. /\ parent.before = paths.before /\ parent.after = paths.after /\ parent.needed = image.needed
          /\ parent.fallback = IF NoFallback(path) THEN <<>> ELSE <<request.fallback>>
      BY <2>6
    <3> QED
      BY <2>3, <2>10, <2>17, <2>18, <2>20, <3>1, <3>2, Zenon DEF Parent
  <2>22. Needs(w, "needing")
    <3>1. \A t \in NeedsOf(s, head) : \E i \in 1 .. Len(w.parent.needed) : w.parent.needed[i] = t
      BY <2>6, <2>10, <2>20
    <3>2. ASSUME NEW t \in w.seen PROVE Has(s, walk.loader, head, t)
      <4>1. Has(s, walk.loader, head - 1, t)
        BY <2>1, <2>2, <2>10, <2>11, <3>2 DEF Needs, Done
      <4>2. head - 1 \in Int /\ head \in Int /\ head - 1 <= head
        BY <2>13
      <4> QED
        BY <2>1, <2>11, <4>1, <4>2, HasLater DEF Lists
    <3>3. \A j \in 1 .. head - 1 : \A t \in NeedsOf(s, j) : Has(s, walk.loader, j, t)
      BY <2>1, <2>2, <2>11 DEF Needs
    <3> QED
      BY <2>10, <3>1, <3>2, <3>3 DEF Needs, Done
  <2>23. Sonames(w, "needing")
    <3>1. SonameOf(s, head) = image.soname
      BY <2>3, <2>4 DEF SonameOf
    <3>2. \A m \in walk.sonames : m # NoText /\ \E k \in 1 .. n : SonameOf(s, k) = m
      BY <2>1, <2>11, <2>12 DEF Sonames
    <3>3. \A m \in w.sonames : m # NoText /\ \E k \in 1 .. n : SonameOf(s, k) = m
      BY <2>10, <2>13, <3>1, <3>2
    <3>4. ~Simple => \A k \in 1 .. n : k >= 2 \/ k <= head - 1 => SonameOf(s, k) \in walk.sonames \cup {NoText}
      BY <2>1, <2>2, <2>11, <2>12 DEF Sonames, Done
    <3>5. ASSUME ~Simple, NEW k \in 1 .. n, k >= 2 \/ k <= head PROVE SonameOf(s, k) \in w.sonames \cup {NoText}
      <4>1. CASE k = head
        BY <2>10, <3>1, <4>1
      <4>2. CASE k # head
        <5>1. k >= 2 \/ k <= head - 1
          BY <2>13, <3>5, <4>2
        <5> QED
          BY <2>10, <3>4, <3>5, <5>1
      <4> QED
        BY <4>1, <4>2
    <3>6. SonamesDiffer(s)
      BY <2>1, <2>11 DEF Sonames
    <3> QED
      BY <2>10, <2>12, <3>3, <3>5, <3>6 DEF Sonames, Done
  <2>24. WalkOK(walk', stage')
    <3>1. Collected(w, "needing")
      BY <2>10, <2>14, <2>15, <2>16, <2>21, <2>22, <2>23 DEF Collected, Done
    <3> QED
      BY <2>7, <2>9, <2>10, <3>1 DEF WalkOK
  <2> QED
    BY <2>7, <2>24, ScopeInvNext
<1> QED
  BY <1>1, <1>2

LEMMA CloseImageCollects == ScopeInv /\ CloseImage => ScopeInv'
<1> SUFFICES ASSUME ScopeInv, CloseImage PROVE ScopeInv'
  OBVIOUS
<1>1. PICK s : s = walk.scope
  OBVIOUS
<1>2. PICK head : head = walk.at
  OBVIOUS
<1>3. /\ stage = "needing" /\ walk.parent.needed = <<>> /\ walk' = [walk EXCEPT !.at = @ + 1]
      /\ stage' = "opening" /\ request' = request
  BY DEF CloseImage
<1>4. Shaped(walk) /\ Collected(walk, "needing")
  BY <1>3 DEF ScopeInv, WalkOK
<1>5. PICK w : w = walk'
  OBVIOUS
<1>6. /\ Shaped(w) /\ w.scope = s /\ w.at = head + 1 /\ w.loader = walk.loader /\ w.seen = walk.seen
      /\ w.sonames = walk.sonames
  BY <1>1, <1>2, <1>3, <1>4, <1>5 DEF Shaped, Shape
<1>7. /\ Lists(walk) /\ Place(walk, "needing") /\ Owned(s, head, walk.loader)
      /\ Needs(walk, "needing") /\ Sonames(walk, "needing") /\ Parent(walk)
  BY <1>1, <1>2, <1>4 DEF Collected, Done
<1>8. PICK n \in Nat : n = Len(s)
  BY <1>1, <1>7, SequenceParts DEF Lists
<1>9. head \in 1 .. n /\ (request.tool = "needed" => head <= 1)
  BY <1>1, <1>2, <1>7, <1>8 DEF Place, Done
<1>10. (head + 1) - 1 = head /\ Done(w, "opening") = head
  BY <1>6, <1>9 DEF Done
<1>11. Lists(w)
  BY <1>1, <1>6, <1>7 DEF Lists
<1>12. Place(w, "opening")
  BY <1>6, <1>8, <1>9, <1>10 DEF Place
<1>13. Needs(w, "opening")
  <2>1. Len(walk.parent.needed) = 0
    BY <1>3, EmptyIsSequence
  <2>2. \A t \in NeedsOf(s, head) : Has(s, walk.loader, head, t)
    BY <1>1, <1>2, <1>7, <2>1 DEF Needs
  <2>3. \A j \in 1 .. head : j = head \/ j \in 1 .. head - 1
    BY <1>9
  <2>4. \A j \in 1 .. head : \A t \in NeedsOf(s, j) : Has(s, walk.loader, j, t)
    BY <1>1, <1>2, <1>7, <2>2, <2>3 DEF Needs
  <2>5. \A t \in w.seen : Has(s, walk.loader, head, t)
    BY <1>1, <1>2, <1>6, <1>7 DEF Needs, Done
  <2> QED
    BY <1>6, <1>10, <2>4, <2>5 DEF Needs
<1>14. Sonames(w, "opening")
  BY <1>1, <1>2, <1>6, <1>7, <1>10 DEF Sonames, Done
<1>15. WalkOK(walk', stage')
  <2>1. Collected(w, "opening")
    BY <1>6, <1>7, <1>10, <1>11, <1>12, <1>13, <1>14 DEF Collected
  <2> QED
    BY <1>3, <1>5, <1>6, <2>1 DEF WalkOK
<1> QED
  BY <1>3, <1>15, ScopeInvNext

(* A name that is loaded already is left; what it finds is there.          *)
LEMMA NextNeeded ==
    ASSUME ScopeInv, TakeDependency
    PROVE  /\ Shaped(walk) /\ Collected(walk, "needing") /\ stage = "needing"
           /\ IsSequence(walk.parent.needed) /\ Len(walk.parent.needed) \in Nat \ {0}
           /\ Head(walk.parent.needed) = walk.parent.needed[1]
           /\ walk.parent.needed[1] \in NeedsOf(walk.scope, walk.at)
           /\ IsSequence(Tail(walk.parent.needed))
           /\ Len(Tail(walk.parent.needed)) = Len(walk.parent.needed) - 1
           /\ \A i \in 1 .. Len(walk.parent.needed) - 1 :
                Tail(walk.parent.needed)[i] = walk.parent.needed[i + 1]
<1>1. stage = "needing" /\ walk.parent.needed # <<>>
  BY DEF TakeDependency
<1>2. Shaped(walk) /\ Collected(walk, "needing")
  BY <1>1 DEF ScopeInv, WalkOK
<1>3. Parent(walk)
  BY <1>2 DEF Collected
<1>4. /\ IsSequence(walk.parent.needed)
      /\ \A i \in 1 .. Len(walk.parent.needed) : walk.parent.needed[i] \in NeedsOf(walk.scope, walk.at)
  BY <1>3 DEF Parent
<1>5. Len(walk.parent.needed) \in Nat \ {0}
  BY <1>1, <1>4, SequenceParts
<1>6. 1 \in 1 .. Len(walk.parent.needed)
  BY <1>5
<1>7. /\ IsSequence(Tail(walk.parent.needed)) /\ Len(Tail(walk.parent.needed)) = Len(walk.parent.needed) - 1
      /\ Head(walk.parent.needed) = walk.parent.needed[1]
      /\ \A i \in 1 .. Len(walk.parent.needed) - 1 :
           Tail(walk.parent.needed)[i] = walk.parent.needed[i + 1]
  BY <1>1, <1>4, TailParts
<1> QED
  BY <1>1, <1>2, <1>4, <1>5, <1>6, <1>7

(* The parent after one of its names was taken.                            *)
LEMMA TakenFromParent ==
    ASSUME ScopeInv, TakeDependency, NEW parent, parent = [walk.parent EXCEPT !.needed = Tail(@)],
           NEW w, w.parent = parent, w.at = walk.at, NEW scope, w.scope = scope,
           scope[walk.at] = walk.scope[walk.at]
    PROVE  Parent(w)
<1> DEFINE fields == {"before", "after", "needed", "fallback"}
           old == walk.parent.needed
           path == scope[walk.at].path
<1>1. Collected(walk, "needing")
  BY NextNeeded
<1>2. Parent(walk)
  BY <1>1 DEF Collected
<1>3. /\ DOMAIN walk.parent = fields /\ walk.parent = [f \in fields |-> walk.parent[f]]
      /\ \A i \in 1 .. Len(old) : old[i] \in NeedsOf(walk.scope, walk.at)
      /\ IsSequence(Rpath(path)) /\ IsSequence(Runpath(path))
      /\ walk.parent.before = Rpath(path) \o scope[walk.at].inherited /\ walk.parent.after = Runpath(path)
      /\ walk.parent.fallback = IF NoFallback(path) THEN <<>> ELSE <<request.fallback>>
  BY <1>2, ZenonT(40) DEF Parent
<1>4. /\ DOMAIN parent = fields /\ parent = [f \in fields |-> parent[f]]
      /\ parent.before = walk.parent.before /\ parent.after = walk.parent.after
      /\ parent.fallback = walk.parent.fallback /\ parent.needed = Tail(old)
  BY <1>3
<1>5. NeedsOf(scope, walk.at) = NeedsOf(walk.scope, walk.at)
  BY DEF NeedsOf
<1>6. ASSUME NEW i \in 1 .. Len(Tail(old)) PROVE Tail(old)[i] \in NeedsOf(scope, walk.at)
  <2>1. i \in 1 .. Len(old) - 1 /\ i + 1 \in 1 .. Len(old)
    BY NextNeeded
  <2> QED
    BY <1>3, <1>5, <2>1, NextNeeded
<1>7. IsSequence(Tail(old))
  BY NextNeeded
<1> HIDE DEF fields
<1> QED
  BY <1>3, <1>4, <1>6, <1>7, ZenonT(40) DEF Parent, fields

(* Of the names an image needs, those not taken yet, and those supplied.   *)
LEMMA TakenIsSupplied ==
    ASSUME ScopeInv, TakeDependency, NEW scope, IsSequence(scope), scope # <<>>,
           \A j, t : Has(walk.scope, walk.loader, j, t) => Has(scope, walk.loader, j, t),
           \A j \in 1 .. walk.at : NeedsOf(scope, j) = NeedsOf(walk.scope, j),
           Has(scope, walk.loader, walk.at, walk.parent.needed[1]),
           NEW w, w.scope = scope, w.loader = walk.loader, w.at = walk.at,
           w.parent.needed = Tail(walk.parent.needed),
           \A t \in w.seen : t \in walk.seen \/ t = walk.parent.needed[1]
    PROVE  Needs(w, "needing")
<1> DEFINE old == walk.parent.needed
<1>1. Collected(walk, "needing")
  BY NextNeeded
<1>2. Needs(walk, "needing") /\ walk.at \in Nat /\ walk.at >= 1
  BY <1>1 DEF Collected, Place
<1>3. ASSUME NEW j \in 1 .. walk.at - 1, NEW t \in NeedsOf(scope, j) PROVE Has(scope, walk.loader, j, t)
  <2>1. j \in 1 .. walk.at
    BY <1>2
  <2> QED
    BY <1>2, <2>1 DEF Needs
<1>4. ASSUME NEW t \in NeedsOf(scope, walk.at)
      PROVE  (\E i \in 1 .. Len(Tail(old)) : Tail(old)[i] = t) \/ Has(scope, walk.loader, walk.at, t)
  <2>1. walk.at \in 1 .. walk.at
    BY <1>2
  <2>2. (\E i \in 1 .. Len(old) : old[i] = t) \/ Has(walk.scope, walk.loader, walk.at, t)
    BY <1>2, <2>1 DEF Needs
  <2>3. ASSUME NEW i \in 1 .. Len(old), old[i] = t, i # 1
        PROVE  \E m \in 1 .. Len(Tail(old)) : Tail(old)[m] = t
    <3>1. PICK m \in 1 .. Len(old) - 1 : i = m + 1
      <4>1. i - 1 \in 1 .. Len(old) - 1 /\ i = (i - 1) + 1
        BY <2>3, NextNeeded
      <4> QED
        BY <4>1
    <3>2. Tail(old)[m] = t /\ m \in 1 .. Len(Tail(old))
      BY <2>3, <3>1, NextNeeded
    <3> QED
      BY <3>2
  <2> QED
    BY <2>2, <2>3
<1>5. \A t \in w.seen : Has(scope, walk.loader, walk.at, t)
  BY <1>2 DEF Needs, Done
<1> QED
  BY <1>3, <1>4, <1>5, Zenon DEF Needs, Done

LEMMA LoadedCollects ==
    ASSUME ScopeInv, TakeDependency, Loaded(Head(walk.parent.needed))
    PROVE  ScopeInv'
<1> DEFINE t == walk.parent.needed[1]
<1>1. /\ Shaped(walk) /\ Collected(walk, "needing") /\ stage = "needing"
      /\ Head(walk.parent.needed) = t
  BY NextNeeded
<1>2. /\ walk' = [walk EXCEPT !.parent.needed = Tail(@)] /\ stage' = "needing" /\ request' = request
  BY <1>1 DEF TakeDependency
<1>3. PICK parent : parent = [walk.parent EXCEPT !.needed = Tail(@)]
  OBVIOUS
<1>4. PICK w : w = walk'
  OBVIOUS
<1>5. /\ Shaped(w) /\ w.scope = walk.scope /\ w.at = walk.at /\ w.loader = walk.loader
      /\ w.seen = walk.seen /\ w.sonames = walk.sonames /\ w.parent = parent
  BY <1>1, <1>2, <1>3, <1>4 DEF Shaped, Shape
<1>6. /\ Lists(walk) /\ Place(walk, "needing") /\ Owned(walk.scope, walk.at, walk.loader)
      /\ Needs(walk, "needing") /\ Sonames(walk, "needing") /\ Parent(walk)
  BY <1>1 DEF Collected, Done
<1>7. parent.needed = Tail(walk.parent.needed)
  BY <1>3, <1>6 DEF Parent
<1>8. Has(walk.scope, walk.loader, walk.at, t)
  <2>1. CASE t \in walk.seen
    BY <1>6, <2>1 DEF Needs, Done
  <2>2. CASE t \notin walk.seen
    <3>1. request.tool \notin SimpleTools /\ t \in walk.sonames
      BY <1>1, <2>2 DEF Loaded
    <3>2. PICK k \in 1 .. Len(walk.scope) : SonameOf(walk.scope, k) = t /\ t # NoText
      BY <1>6, <3>1 DEF Sonames
    <3>3. k \in DOMAIN walk.scope
      BY <1>6, SequenceParts DEF Lists
    <3> QED
      BY <3>1, <3>2, <3>3 DEF Has, Supplied
  <2> QED
    BY <2>1, <2>2
<1> HIDE DEF t
<1>9. Parent(w)
  BY <1>3, <1>5, TakenFromParent
<1>10. Needs(w, "needing")
  <2>1. IsSequence(walk.scope) /\ walk.scope # <<>>
    BY <1>6 DEF Lists
  <2> QED
    BY <1>5, <1>7, <1>8, <2>1, TakenIsSupplied DEF t
<1>11. WalkOK(walk', stage')
  <2>1. Lists(w) /\ Place(w, "needing") /\ Sonames(w, "needing")
    BY <1>5, <1>6 DEF Lists, Place, Sonames, Done
  <2>2. Collected(w, "needing")
    BY <1>5, <1>6, <1>9, <1>10, <2>1 DEF Collected, Done
  <2> QED
    BY <1>2, <1>4, <1>5, <2>2 DEF WalkOK
<1> QED
  BY <1>2, <1>11, ScopeInvNext

(* Where the image that is opened finds the name it needs next.            *)
LEMMA TakenIsFound ==
    ASSUME ScopeInv, TakeDependency, NEW t, NEW found, found = Resolve(t), found # Refused
    PROVE  found = FoundFrom(walk.scope[walk.at].path, walk.scope[walk.at].inherited, walk.loader, t)
<1>1. PICK path : path = walk.scope[walk.at].path
  OBVIOUS
<1>2. PICK inherited : inherited = walk.scope[walk.at].inherited
  OBVIOUS
<1>3. Collected(walk, "needing")
  BY NextNeeded
<1>4. Parent(walk) /\ Lists(walk) /\ walk.at \in 1 .. Len(walk.scope)
  BY <1>3 DEF Collected, Place
<1>5. /\ IsSequence(Rpath(path)) /\ IsSequence(Runpath(path))
      /\ walk.parent.before = Rpath(path) \o inherited /\ walk.parent.after = Runpath(path)
      /\ walk.parent.fallback = IF NoFallback(path) THEN <<>> ELSE <<request.fallback>>
  BY <1>1, <1>2, <1>4 DEF Parent
<1>6. IsSequence(inherited) /\ IsSequence(walk.loader)
  BY <1>2, <1>4 DEF Lists
<1>7. IsSequence(OrderOf(path, inherited, walk.loader))
  BY <1>5, <1>6, OrderIsSequence
<1>8. CASE Simple
  <2>1. inherited = <<>> /\ walk.loader = <<>>
    BY <1>2, <1>4, <1>8 DEF Lists
  <2>2. found = FoundFrom(path, <<>>, <<>>, t)
    BY <1>7, <1>8, <2>1, SimpleFinds DEF Simple
  <2> QED
    BY <1>1, <1>2, <2>1, <2>2
<1>9. CASE ~Simple
  <2>1. path = Entry.path /\ inherited = Entry.inherited
    BY <1>1, <1>2 DEF Entry
  <2>2. found = FoundFrom(path, inherited, walk.loader, t)
    BY <1>5, <1>7, <1>9, <2>1, ResolveFinds DEF Simple
  <2> QED
    BY <1>1, <1>2, <2>2
<1> QED
  BY <1>8, <1>9

(* What an image finds supplies it: the file itself, or one of its SONAME. *)
LEMMA FoundSupplies ==
    ASSUME NEW scope, NEW loader, NEW k, NEW i \in Nat, NEW t, NEW file,
           IsSequence(scope), scope # <<>>, k \in 1 .. Len(scope), i \in OpenedImages(scope),
           t \in NeedsOf(scope, i), file = FoundFrom(scope[i].path, scope[i].inherited, loader, t),
           \/ file = scope[k].path
           \/ /\ request.tool \notin SimpleTools /\ SonameOf(scope, k) # NoText
              /\ file # Refused /\ Readable(file) /\ ImageAt(file).soname = SonameOf(scope, k)
    PROVE  Has(scope, loader, i, t)
<1>1. i \in DOMAIN scope /\ k \in DOMAIN scope
  BY OpenedOf
<1>2. Inherits(scope)[i] = scope[i].inherited
  BY <1>1 DEF Inherits
<1>3. Finds(scope, Inherits(scope), loader, i, t) = file
  BY <1>2 DEF Finds
<1>4. Supplies(scope, Inherits(scope), loader, k, i, t)
  BY <1>3 DEF Supplies
<1>5. i <= i
  OBVIOUS
<1> QED
  BY <1>1, <1>4, <1>5, Zenon DEF Has, Supplied

(* The image that is opened is one that may be.                            *)
LEMMA OpenedNow ==
    ASSUME ScopeInv, TakeDependency
    PROVE  /\ walk.at \in 1 .. Len(walk.scope) /\ Len(walk.scope) \in Nat
           /\ walk.at \in OpenedImages(walk.scope) /\ IsSequence(walk.scope) /\ walk.scope # <<>>
<1>1. Lists(walk) /\ Place(walk, "needing")
  BY NextNeeded DEF Collected
<1>2. IsSequence(walk.scope) /\ walk.scope # <<>> /\ Len(walk.scope) \in Nat
  BY <1>1, SequenceParts DEF Lists
<1>3. walk.at \in 1 .. Len(walk.scope) /\ (request.tool = "needed" => walk.at <= 1)
  BY <1>1 DEF Place, Done
<1>4. walk.at \in OpenedImages(walk.scope)
  BY <1>2, <1>3, OpenedOf
<1> QED
  BY <1>2, <1>3, <1>4

(* The name finds an image of a SONAME that the scope has.                 *)
LEMMA KnownCollects ==
    ASSUME ScopeInv, TakeDependency, NEW t, t = walk.parent.needed[1], NEW found, found = Resolve(t),
           found # Refused, ~Simple, Readable(found), ImageAt(found).soname # NoText,
           ImageAt(found).soname \in walk.sonames,
           NEW rest, rest = [walk EXCEPT !.parent.needed = Tail(@), !.seen = @ \cup {t}],
           walk' = rest, stage' = "needing", request' = request
    PROVE  ScopeInv'
<1>1. Shaped(walk) /\ Collected(walk, "needing")
  BY NextNeeded
<1>2. PICK parent : parent = [walk.parent EXCEPT !.needed = Tail(@)]
  OBVIOUS
<1>3. /\ Shaped(rest) /\ rest.scope = walk.scope /\ rest.at = walk.at /\ rest.loader = walk.loader
      /\ rest.seen = walk.seen \cup {t} /\ rest.sonames = walk.sonames /\ rest.parent = parent
  BY <1>1, <1>2 DEF Shaped, Shape
<1>4. /\ Lists(walk) /\ Place(walk, "needing") /\ Owned(walk.scope, walk.at, walk.loader)
      /\ Needs(walk, "needing") /\ Sonames(walk, "needing") /\ Parent(walk)
  BY <1>1 DEF Collected, Done
<1>5. parent.needed = Tail(walk.parent.needed)
  BY <1>2, <1>4 DEF Parent
<1>6. Has(walk.scope, walk.loader, walk.at, t)
  <2>1. PICK k \in 1 .. Len(walk.scope) : SonameOf(walk.scope, k) = ImageAt(found).soname
    BY <1>4 DEF Sonames
  <2>2. found = FoundFrom(walk.scope[walk.at].path, walk.scope[walk.at].inherited, walk.loader, t)
    BY TakenIsFound
  <2>3. t \in NeedsOf(walk.scope, walk.at)
    BY NextNeeded
  <2>4. walk.at \in Nat
    BY OpenedNow
  <2> QED
    BY <2>1, <2>2, <2>3, <2>4, OpenedNow, FoundSupplies DEF Simple
<1>7. Parent(rest)
  BY <1>2, <1>3, TakenFromParent
<1>8. Needs(rest, "needing")
  <2>1. \A n \in rest.seen : n \in walk.seen \/ n = walk.parent.needed[1]
    BY <1>3
  <2> QED
    BY <1>3, <1>5, <1>6, <2>1, OpenedNow, TakenIsSupplied
<1>9. WalkOK(walk', stage')
  <2>1. Lists(rest) /\ Place(rest, "needing") /\ Sonames(rest, "needing")
    BY <1>3, <1>4 DEF Lists, Place, Sonames, Done
  <2>2. Collected(rest, "needing")
    BY <1>3, <1>4, <1>7, <1>8, <2>1 DEF Collected, Done
  <2> QED
    BY <1>3, <2>2 DEF WalkOK
<1> QED
  BY <1>9, ScopeInvNext

(* The image that is added has an owner, the one that is opened.           *)
LEMMA AddedIsOwned ==
    ASSUME NEW scope, NEW longer, NEW loader, NEW done \in Nat, NEW n \in Nat, n = Len(scope), Len(longer) = n + 1,
           done \in 1 .. n, Owned(scope, done, loader), \A k \in 1 .. n : longer[k] = scope[k],
           Needer(longer, loader, done, n + 1)
    PROVE  Owned(longer, done, loader)
<1>1. PICK owner : OwnedBy(scope, owner, done, loader)
  BY DEF Owned
<1>2. /\ owner \in [2 .. n -> 1 .. done]
      /\ \A k \in 2 .. n : Needer(scope, loader, owner[k], k)
      /\ \A j, k \in 2 .. n : j < k => owner[j] <= owner[k]
  BY <1>1 DEF OwnedBy
<1>3. PICK more : more = [k \in 2 .. n + 1 |-> IF k = n + 1 THEN done ELSE owner[k]]
  OBVIOUS
<1>4. \A k \in 2 .. n : k \in 2 .. n + 1 /\ k # n + 1 /\ k \in 1 .. n /\ owner[k] \in 1 .. done /\ owner[k] \in 1 .. n
  BY <1>2
<1>5. \A k \in 2 .. n + 1 : k = n + 1 \/ k \in 2 .. n
  OBVIOUS
<1>6. n + 1 \in 2 .. n + 1 /\ more[n + 1] = done /\ \A k \in 2 .. n : more[k] = owner[k]
  BY <1>3, <1>4
<1>7. more \in [2 .. n + 1 -> 1 .. done]
  BY <1>3, <1>4, <1>5, SMTT(30)
<1>8. ASSUME NEW k \in 2 .. n PROVE Needer(longer, loader, more[k], k)
  <2>1. PICK o \in 1 .. n : o = owner[k]
    BY <1>4
  <2>2. longer[k] = scope[k] /\ longer[o] = scope[o]
    BY <1>4
  <2>3. NeedsOf(longer, o) = NeedsOf(scope, o)
    BY <2>2 DEF NeedsOf
  <2>4. Needer(scope, loader, o, k)
    BY <1>2, <2>1
  <2> QED
    BY <1>6, <2>1, <2>2, <2>3, <2>4, ZenonT(40) DEF Needer
<1>9. \A k \in 2 .. n + 1 : Needer(longer, loader, more[k], k)
  BY <1>5, <1>6, <1>8
<1>10. ASSUME NEW j \in 2 .. n + 1, NEW k \in 2 .. n + 1, j < k PROVE more[j] <= more[k]
  <2>1. j \in 2 .. n
    BY <1>10
  <2>2. CASE k = n + 1
    BY <1>4, <1>6, <2>1, <2>2
  <2>3. CASE k \in 2 .. n
    BY <1>2, <1>6, <1>10, <2>1, <2>3
  <2> QED
    BY <1>5, <2>2, <2>3
<1> QED
  BY <1>7, <1>9, <1>10 DEF Owned, OwnedBy

(* A new image is at the end of the scope.                                 *)
IsLonger(longer, child, n) ==
    /\ IsSequence(longer) /\ longer # <<>> /\ Len(longer) = n + 1 /\ longer[n + 1] = child
    /\ \A k \in 1 .. n : longer[k] = walk.scope[k] /\ k \in 1 .. n + 1
    /\ n + 1 \in 1 .. n + 1 /\ \A k \in 1 .. n + 1 : k = n + 1 \/ k \in 1 .. n
    /\ walk.at \in 1 .. n /\ walk.at \in OpenedImages(longer) /\ walk.at < n + 1
    /\ \A j, t : Has(walk.scope, walk.loader, j, t) => Has(longer, walk.loader, j, t)
Grown(t, child, soname) ==
    [walk EXCEPT !.parent.needed = Tail(@), !.seen = @ \cup {t},
                 !.scope = Append(@, child), !.sonames = @ \cup ({soname} \ {NoText})]

LEMMA Longer ==
    ASSUME ScopeInv, TakeDependency, NEW child, NEW longer, longer = Append(walk.scope, child),
           NEW n \in Nat, n = Len(walk.scope)
    PROVE  IsLonger(longer, child, n)
<1>1. /\ walk.at \in 1 .. n /\ IsSequence(walk.scope) /\ walk.scope # <<>>
      /\ walk.at \in OpenedImages(walk.scope)
  BY OpenedNow
<1>2. IsSequence(longer) /\ Len(longer) = n + 1 /\ longer[n + 1] = child /\ \A k \in 1 .. n : longer[k] = walk.scope[k]
  BY <1>1, AppendParts
<1>3. longer # <<>>
  BY <1>2, SequenceParts
<1>4. \A k \in 1 .. n : k \in 1 .. n + 1
  OBVIOUS
<1>5. walk.at \in OpenedImages(longer)
  BY <1>1, <1>2, <1>3, <1>4, OpenedOf
<1>6. n + 1 \in 1 .. n + 1 /\ \A k \in 1 .. n + 1 : k = n + 1 \/ k \in 1 .. n
  OBVIOUS
<1>7. \A j, t : Has(walk.scope, walk.loader, j, t) => Has(longer, walk.loader, j, t)
  BY <1>1, <1>2, HasLonger
<1>8. walk.at < n + 1
  BY <1>1
<1> QED
  BY <1>1, <1>2, <1>3, <1>4, <1>5, <1>6, <1>7, <1>8 DEF IsLonger

LEMMA AddedCollects ==
    ASSUME ScopeInv, TakeDependency, NEW t, t = walk.parent.needed[1], NEW found, found = Resolve(t),
           found # Refused, ~Simple => Readable(found),
           NEW soname, soname = IF Simple THEN NoText ELSE ImageAt(found).soname,
           soname = NoText \/ soname \notin walk.sonames,
           NEW child, child = [path |-> found, inherited |-> walk.parent.before],
           walk' = Grown(t, child, soname),
           stage' = "needing", request' = request
    PROVE  ScopeInv'
<1>1. Shaped(walk) /\ Collected(walk, "needing")
  BY NextNeeded
<1>2. PICK parent : parent = [walk.parent EXCEPT !.needed = Tail(@)]
  OBVIOUS
<1>3. PICK longer : longer = Append(walk.scope, child)
  OBVIOUS
<1>4. PICK w : w = walk'
  OBVIOUS
<1>5. /\ Shaped(w) /\ w.scope = longer /\ w.at = walk.at /\ w.loader = walk.loader
      /\ w.seen = walk.seen \cup {t} /\ w.sonames = walk.sonames \cup ({soname} \ {NoText})
      /\ w.parent = parent
  BY <1>1, <1>2, <1>3, <1>4 DEF Shaped, Shape, Grown
<1>6. /\ Lists(walk) /\ Place(walk, "needing") /\ Owned(walk.scope, walk.at, walk.loader)
      /\ Needs(walk, "needing") /\ Sonames(walk, "needing") /\ Parent(walk)
  BY <1>1 DEF Collected, Done
<1>7. parent.needed = Tail(walk.parent.needed)
  BY <1>2, <1>6 DEF Parent
<1>8. PICK n \in Nat : n = Len(walk.scope)
  BY OpenedNow
<1>9. /\ IsSequence(longer) /\ longer # <<>> /\ Len(longer) = n + 1 /\ longer[n + 1] = child
      /\ \A k \in 1 .. n : longer[k] = walk.scope[k] /\ k \in 1 .. n + 1
      /\ n + 1 \in 1 .. n + 1 /\ \A k \in 1 .. n + 1 : k = n + 1 \/ k \in 1 .. n
      /\ walk.at \in 1 .. n /\ walk.at \in OpenedImages(longer) /\ walk.at < n + 1
      /\ \A j, u : Has(walk.scope, walk.loader, j, u) => Has(longer, walk.loader, j, u)
  <2>1. IsLonger(longer, child, n)
    BY <1>3, <1>8, Longer
  <2> QED
    BY <2>1 DEF IsLonger
<1>10. child.path = found /\ child.inherited = walk.parent.before
  OBVIOUS
<1>11. \A j \in 1 .. walk.at : j \in 1 .. n
  BY <1>9
<1>12. \A j \in 1 .. n : NeedsOf(longer, j) = NeedsOf(walk.scope, j)
  BY <1>9 DEF NeedsOf
<1>13. found = FoundFrom(walk.scope[walk.at].path, walk.scope[walk.at].inherited, walk.loader, t)
  BY TakenIsFound
<1>14. t \in NeedsOf(longer, walk.at)
  BY <1>9, <1>12, NextNeeded
<1>15. /\ IsSequence(Rpath(walk.scope[walk.at].path))
       /\ walk.parent.before = Rpath(walk.scope[walk.at].path) \o walk.scope[walk.at].inherited
  BY <1>6 DEF Parent
<1>16. Lists(w)
  <2>1. /\ walk.scope[1].inherited = <<>> /\ IsSequence(walk.loader) /\ (Simple => walk.loader = <<>>)
        /\ \A k \in 1 .. n : IsSequence(walk.scope[k].inherited)
        /\ Simple => \A k \in 1 .. n : walk.scope[k].inherited = <<>>
    BY <1>6, <1>8 DEF Lists
  <2>2. IsSequence(walk.parent.before)
    <3>1. IsSequence(walk.scope[walk.at].inherited)
      BY <1>9, <2>1
    <3> QED
      BY ONLY <1>15, <3>1, ConcatParts
  <2>3. ASSUME Simple PROVE walk.parent.before = <<>>
    <3>1. Rpath(walk.scope[walk.at].path) = <<>> /\ walk.scope[walk.at].inherited = <<>>
      BY <1>9, <2>1, <2>3 DEF Rpath, Simple
    <3>2. PICK none : none = <<>>
      OBVIOUS
    <3>3. none \in Seq({1})
      BY <3>2
    <3>4. none \o none = none
      BY <3>2, <3>3, ConcatEmptySeq
    <3> QED
      BY <1>15, <3>1, <3>2, <3>4
  <2>4. 1 \in 1 .. n
    BY <1>9
  <2>5. \A k \in 1 .. n + 1 : IsSequence(longer[k].inherited)
    BY <1>9, <1>10, <2>1, <2>2
  <2>6. Simple => \A k \in 1 .. n + 1 : longer[k].inherited = <<>>
    BY <1>9, <1>10, <2>1, <2>3
  <2>7. longer[1].inherited = <<>>
    BY <1>9, <2>1, <2>4
  <2> QED
    BY <1>5, <1>9, <2>1, <2>5, <2>6, <2>7 DEF Lists
<1>17. Place(w, "needing")
  <2>1. /\ walk.at \in 1 .. n + 1 /\ walk.at \in 1 .. (n + 1) + 1
    BY <1>9
  <2>2. request.tool = "needed" => walk.at <= 1
    BY <1>6 DEF Place, Done
  <2> QED
    BY <1>5, <1>9, <2>1, <2>2 DEF Place, Done
<1>18. Owned(longer, walk.at, walk.loader)
  <2>1. Needer(longer, walk.loader, walk.at, n + 1)
    <3>1. longer[walk.at] = walk.scope[walk.at]
      BY <1>9
    <3> QED
      BY <1>9, <1>10, <1>13, <1>14, <1>15, <3>1 DEF Needer
  <2> QED
    <3>1. walk.at \in Nat /\ \A k \in 1 .. n : longer[k] = walk.scope[k]
      BY <1>9
    <3>2. Len(longer) = n + 1 /\ walk.at \in 1 .. n
      BY <1>9
    <3> QED
      BY ONLY <1>6, <1>8, <2>1, <3>1, <3>2, AddedIsOwned
<1>19. Has(longer, walk.loader, walk.at, t)
  <2>1. found = longer[n + 1].path /\ n + 1 \in 1 .. Len(longer) /\ walk.at \in Nat
    BY <1>9, <1>10
  <2>2. found = FoundFrom(longer[walk.at].path, longer[walk.at].inherited, walk.loader, t)
    BY <1>9, <1>13
  <2> QED
    BY <1>9, <1>14, <2>1, <2>2, FoundSupplies
<1>20. Parent(w)
  BY <1>2, <1>5, <1>9, TakenFromParent
<1>21. Needs(w, "needing")
  <2>1. \A m \in w.seen : m \in walk.seen \/ m = walk.parent.needed[1]
    BY <1>5
  <2>2. \A j \in 1 .. walk.at : NeedsOf(longer, j) = NeedsOf(walk.scope, j)
    BY <1>11, <1>12
  <2> QED
    BY <1>5, <1>7, <1>9, <1>19, <2>1, <2>2, TakenIsSupplied
<1>22. Sonames(w, "needing")
  <2>1. /\ \A m \in walk.sonames : m # NoText /\ \E k \in 1 .. n : SonameOf(walk.scope, k) = m
        /\ ~Simple => \A k \in 1 .. n :
                        k >= 2 \/ k <= walk.at => SonameOf(walk.scope, k) \in walk.sonames \cup {NoText}
        /\ SonamesDiffer(walk.scope)
    BY <1>6, <1>8 DEF Sonames, Done
  <2>2. \A k \in 1 .. n : SonameOf(longer, k) = SonameOf(walk.scope, k)
    BY <1>9 DEF SonameOf
  <2>3. ~Simple => SonameOf(longer, n + 1) = soname
    BY <1>9, <1>10 DEF SonameOf
  <2>4. ASSUME NEW m \in w.sonames PROVE m # NoText /\ \E k \in 1 .. n + 1 : SonameOf(longer, k) = m
    <3>1. CASE m \in walk.sonames
      BY <1>9, <2>1, <2>2, <3>1
    <3>2. CASE m \notin walk.sonames
      <4>1. m = soname /\ m # NoText
        BY <1>5, <3>2
      <4>2. ~Simple
        BY <4>1
      <4> QED
        BY <1>9, <2>3, <4>1, <4>2
    <3> QED
      BY <3>1, <3>2
  <2>5. ASSUME ~Simple, NEW k \in 1 .. n + 1, k >= 2 \/ k <= walk.at
        PROVE  SonameOf(longer, k) \in w.sonames \cup {NoText}
    <3>1. CASE k = n + 1
      BY <1>5, <2>3, <2>5, <3>1
    <3>2. CASE k # n + 1
      BY <1>5, <1>9, <2>1, <2>2, <2>5, <3>2
    <3> QED
      BY <3>1, <3>2
  <2>6. SonamesDiffer(longer)
    <3>1. CASE Simple
      BY <3>1 DEF SonamesDiffer, Simple
    <3>2. CASE ~Simple
      <4>1. \A k \in 1 .. n : k >= 2 \/ k <= walk.at
        BY <1>9
      <4>2. \A k \in 1 .. n : SonameOf(longer, k) = NoText \/ SonameOf(longer, k) \in walk.sonames
        BY <2>1, <2>2, <3>2, <4>1
      <4>3. \A k \in 1 .. n : SonameOf(longer, k) = NoText \/ SonameOf(longer, k) # SonameOf(longer, n + 1)
        BY <2>3, <3>2, <4>2
      <4>4. DOMAIN longer = 1 .. n + 1 /\ DOMAIN walk.scope = 1 .. n
        BY <1>8, <1>9, OpenedNow, SequenceParts
      <4>5. \A j, k \in 1 .. n : j # k => SonameOf(longer, j) = NoText \/ SonameOf(longer, j) # SonameOf(longer, k)
        BY <2>1, <2>2, <3>2, <4>4 DEF SonamesDiffer, SonameOf, Simple
      <4>6. \A j, k \in 1 .. n + 1 : j # k => SonameOf(longer, j) = NoText \/ SonameOf(longer, j) # SonameOf(longer, k)
        BY <1>9, <4>3, <4>5
      <4> QED
        BY <4>4, <4>6 DEF SonamesDiffer, SonameOf
    <3> QED
      BY <3>1, <3>2
  <2> QED
    BY <1>5, <1>9, <2>4, <2>5, <2>6 DEF Sonames, Done
<1>23. WalkOK(walk', stage')
  <2>1. Collected(w, "needing")
    BY <1>5, <1>16, <1>17, <1>18, <1>20, <1>21, <1>22 DEF Collected, Done
  <2> QED
    BY <1>4, <1>5, <2>1 DEF WalkOK
<1> QED
  BY <1>23, ScopeInvNext

LEMMA TakeDependencyCollects == ScopeInv /\ TakeDependency => ScopeInv'
<1> SUFFICES ASSUME ScopeInv, TakeDependency PROVE ScopeInv'
  OBVIOUS
<1>1. CASE Fail
  <2>1. request' = request /\ walk' = walk /\ stage' = "returning"
    BY <1>1 DEF Fail
  <2>2. WalkOK(walk', stage')
    BY <2>1 DEF ScopeInv, WalkOK
  <2> QED
    BY <2>1, <2>2, ScopeInvNext
<1>2. CASE ~Fail /\ ~Loaded(Head(walk.parent.needed))
  <2>1. PICK t : t = walk.parent.needed[1]
    OBVIOUS
  <2>2. PICK found : found = Resolve(t)
    OBVIOUS
  <2>3. PICK soname : soname = IF Simple THEN NoText ELSE ImageAt(found).soname
    OBVIOUS
  <2>4. PICK child : child = [path |-> found, inherited |-> walk.parent.before]
    OBVIOUS
  <2>5. PICK rest : rest = [walk EXCEPT !.parent.needed = Tail(@), !.seen = @ \cup {t}]
    OBVIOUS
  <2>6. Head(walk.parent.needed) = t /\ stage = "needing"
    BY <2>1, NextNeeded
  <2>7. /\ found # Refused /\ (~Simple => Readable(found)) /\ stage' = "needing" /\ request' = request
        /\ walk' = IF soname # NoText /\ soname \in walk.sonames THEN rest
                   ELSE [rest EXCEPT !.scope = Append(@, child), !.sonames = @ \cup ({soname} \ {NoText})]
    BY <1>2, <2>2, <2>3, <2>4, <2>5, <2>6 DEF TakeDependency, Simple
  <2>8. CASE soname # NoText /\ soname \in walk.sonames
    <3>1. ~Simple /\ soname = ImageAt(found).soname
      BY <2>3, <2>8
    <3> QED
      BY <2>1, <2>2, <2>5, <2>7, <2>8, <3>1, KnownCollects
  <2>9. CASE ~(soname # NoText /\ soname \in walk.sonames)
    <3>1. walk' = Grown(t, child, soname)
      <4>1. Shaped(walk)
        BY NextNeeded
      <4> QED
        BY <2>5, <2>7, <2>9, <4>1 DEF Shaped, Shape, Grown
    <3> QED
      <4>1. soname = NoText \/ soname \notin walk.sonames
        BY <2>9
      <4> QED
        BY ONLY ScopeInv, TakeDependency, <2>1, <2>2, <2>3, <2>4, <2>7, <3>1, <4>1, AddedCollects
  <2> QED
    BY <2>8, <2>9
<1> QED
  BY <1>1, <1>2, LoadedCollects

-----------------------------------------------------------------------------
(* The invariant.                                                          *)
LookupInv == EnvInv /\ TrailInv /\ ScopeInv

LEMMA LookupInitially == LookupInit => LookupInv
<1> SUFFICES ASSUME LookupInit PROVE LookupInv
  OBVIOUS
<1>1. request \in Lookups /\ environment = request.environment
  BY DEF LookupInit
<1>2. saved = <<>> /\ stage = "called" /\ trail = <<>> /\ walk = NoWalk /\ output = NotFound
  BY DEF LookupInit
<1>3. TypedEnvironment(environment)
  <2>1. PICK l \in Lookups : l = request
    BY <1>1
  <2>2. IsEnvironment(l.environment) /\ \A v \in DOMAIN l.environment : l.environment[v] \in Seq(Text)
    BY LookupAssumption
  <2>3. \A v \in DOMAIN environment : IsSequence(environment[v])
    BY <1>1, <2>1, <2>2 DEF IsSequence
  <2> QED
    BY <1>1, <2>1, <2>2, <2>3 DEF TypedEnvironment
<1>4. EnvInv
  <2>1. IsSequence(saved) /\ Len(saved) = 0
    BY <1>2, EmptyIsSequence
  <2>2. \A k \in 1 .. Len(saved) : FALSE
    BY <2>1
  <2> QED
    BY <1>1, <1>2, <1>3, <2>1, <2>2 DEF EnvInv
<1>5. TrailInv
  <2>1. IsSequence(trail) /\ Len(trail) = 0
    BY <1>2, EmptyIsSequence
  <2>2. (\A k \in 1 .. Len(trail) : FALSE) /\ \A k \in 2 .. Len(trail) : FALSE
    BY <2>1
  <2> QED
    BY <1>2, <2>1, <2>2 DEF TrailInv, Recorded, PreloadsDiffer
<1>6. ScopeInv
  <2>1. Shaped(walk)
    BY <1>2 DEF NoWalk, Shaped, Shape
  <2> QED
    BY <1>2, <2>1 DEF ScopeInv, WalkOK
<1> QED
  BY <1>4, <1>5, <1>6 DEF LookupInv

LEMMA EnvNext == EnvInv /\ LookupNext => EnvInv'
<1> SUFFICES ASSUME EnvInv, LookupNext PROVE EnvInv'
  OBVIOUS
<1>1. CASE Call
  BY <1>1, EnvUnchanged DEF Call
<1>2. CASE ParsePreloads
  BY <1>2, EnvUnchanged DEF ParsePreloads, Fail
<1>3. CASE ResolveNextPreload
  BY <1>3, EnvUnchanged DEF ResolveNextPreload, Fail
<1>4. CASE PreloadsResolved
  BY <1>4, EnvUnchanged DEF PreloadsResolved
<1>5. CASE LookInFile
  BY <1>5, EnvUnchanged DEF LookInFile, Looked, Fail
<1>6. CASE BeginScope
  BY <1>6, EnvUnchanged DEF BeginScope, Fail
<1>7. CASE Report
  BY <1>7, EnvUnchanged DEF Report
<1>8. CASE OpenImage
  BY <1>8, EnvUnchanged DEF OpenImage, Fail
<1>9. CASE TakeDependency
  BY <1>9, EnvUnchanged DEF TakeDependency, Fail
<1>10. CASE CloseImage
  BY <1>10, EnvUnchanged, SMTT(30) DEF CloseImage
<1>11. CASE LookInScope
  BY <1>11, EnvUnchanged DEF LookInScope, Looked, Fail
<1> QED
  BY <1>1, <1>2, <1>3, <1>4, <1>5, <1>6, <1>7, <1>8, <1>9, <1>10, <1>11,
     CallSystemPreloadSaves, ExpandPreloadsSaves, ReturnStep DEF LookupNext

(* What was found first is still the first found.                          *)
LEMMA FirstAnswerStays ==
    ASSUME FirstAnswer, UNCHANGED <<request, trail, output>>
    PROVE  FirstAnswer'
<1>1. \A p : Lookup(p)' = Lookup(p)
  BY DEF Lookup
<1>2. \A p : Answer(p)' = Answer(p)
  BY <1>1 DEF Answer
<1> QED
  BY <1>2 DEF FirstAnswer, Examined, Ahead

LEMMA ReturnRecorded == TrailInv /\ Return => TrailInv'
<1> SUFFICES ASSUME TrailInv, Return PROVE TrailInv'
  OBVIOUS
<1>1. stage = "returning" /\ stage' \in {"returning", "exited"} /\ UNCHANGED <<request, trail, output>>
  BY DEF Return
<1>2. output' = Refusal \/ FirstAnswer'
  BY <1>1, FirstAnswerStays DEF TrailInv
<1> QED
  BY <1>1, <1>2, TrailUnchanged DEF TrailInv

LEMMA TrailNext == TrailInv /\ ScopeInv /\ LookupNext => TrailInv'
<1> SUFFICES ASSUME TrailInv, ScopeInv, LookupNext PROVE TrailInv'
  OBVIOUS
<1>1. Shaped(walk)
  BY DEF ScopeInv, WalkOK
<1>2. CASE LookInScope
  <2>1. Lists(walk)
    BY <1>2 DEF LookInScope, ScopeInv, WalkOK, Collected
  <2> QED
    BY <1>2, <2>1, LookInScopeRecorded DEF Lists
<1> QED
  BY <1>1, <1>2, CallsRecorded, ParsePreloadsRecorded, ResolveNextRecorded, PreloadsResolvedRecorded,
     LookInFileRecorded, BeginScopeRecorded, ReportRecorded, CollectingRecorded, ReturnRecorded
     DEF LookupNext

(* The steps that collect nothing.                                         *)
LEMMA OutsideScopes ==
    ASSUME Shaped(walk'), stage' \notin {"opening", "needing"}, request' = request
    PROVE  ScopeInv'
<1>1. WalkOK(walk', stage')
  BY DEF WalkOK
<1> QED
  BY <1>1, ScopeInvNext

LEMMA ScopeNext == EnvInv /\ ScopeInv /\ LookupNext => ScopeInv'
<1> SUFFICES ASSUME EnvInv, ScopeInv, LookupNext PROVE ScopeInv'
  OBVIOUS
<1>1. Shaped(walk)
  BY DEF ScopeInv, WalkOK
<1>2. CASE walk' = walk /\ stage' \notin {"opening", "needing"} /\ request' = request
  BY <1>1, <1>2, OutsideScopes
<1>3. CASE Call
  BY <1>2, <1>3 DEF Call
<1>4. CASE CallSystemPreload
  BY <1>2, <1>4 DEF CallSystemPreload, Fail
<1>5. CASE ExpandPreloads
  BY <1>2, <1>5 DEF ExpandPreloads, Fail
<1>6. CASE ParsePreloads
  <2>1. CASE walk' = walk
    BY <1>2, <1>6, <2>1 DEF ParsePreloads, Fail
  <2>2. CASE walk' # walk
    <3>1. PICK loader : loader = EnvDirectories(request.root)
      OBVIOUS
    <3>2. walk' = [NoWalk EXCEPT !.loader = loader] /\ stage' = "resolving" /\ request' = request
      BY <1>6, <2>2, <3>1 DEF ParsePreloads, Fail
    <3>3. Shaped(walk')
      BY <3>2 DEF NoWalk, Shaped, Shape
    <3> QED
      BY <3>2, <3>3, OutsideScopes
  <2> QED
    BY <2>1, <2>2
<1>7. CASE ResolveNextPreload
  <2>1. CASE Fail
    BY <1>2, <2>1 DEF Fail
  <2>2. CASE ~Fail
    <3>1. PICK path : path = ResolvePreload(Head(agenda), walk.loader)
      OBVIOUS
    <3>2. /\ walk' = [walk EXCEPT !.scope = DeduplicatePreloadPaths(@, path)]
          /\ stage' = "resolving" /\ request' = request
      BY <1>7, <2>2, <3>1 DEF ResolveNextPreload
    <3>3. Shaped(walk')
      BY <1>1, <3>2 DEF Shaped, Shape
    <3> QED
      BY <3>2, <3>3, OutsideScopes
  <2> QED
    BY <2>1, <2>2
<1>8. CASE PreloadsResolved
  BY <1>2, <1>8 DEF PreloadsResolved
<1>9. CASE LookInFile
  BY <1>2, <1>9 DEF LookInFile, Looked, Fail
<1>10. CASE Report
  BY <1>2, <1>10, SMTT(30) DEF Report
<1>11. CASE LookInScope
  BY <1>2, <1>11 DEF LookInScope, Looked, Fail
<1>12. CASE Return
  BY <1>2, <1>12 DEF Return
<1> QED
  BY <1>3, <1>4, <1>5, <1>6, <1>7, <1>8, <1>9, <1>10, <1>11, <1>12, BeginScopeCollects, OpenImageCollects,
     TakeDependencyCollects, CloseImageCollects DEF LookupNext

LEMMA LookupStutters == LookupInv /\ UNCHANGED scopeVars => LookupInv'
<1> SUFFICES ASSUME LookupInv, UNCHANGED scopeVars PROVE LookupInv'
  OBVIOUS
<1>1. UNCHANGED <<request, environment, saved, stage, agenda, trail, walk, output>>
  BY DEF scopeVars
<1>2. EnvInv'
  BY <1>1, EnvUnchanged DEF LookupInv
<1>3. TrailInv'
  <2>1. Recorded' /\ PreloadsDiffer'
    BY <1>1, TrailUnchanged DEF LookupInv
  <2>2. FirstAnswer => FirstAnswer'
    BY <1>1, FirstAnswerStays
  <2>3. PathsDiffer(walk.scope)' = PathsDiffer(walk.scope) /\ AgendaDiffers' = AgendaDiffers
    BY <1>1 DEF PathsDiffer, AgendaDiffers, Differ
  <2> QED
    BY <1>1, <2>1, <2>2, <2>3 DEF LookupInv, TrailInv
<1>4. ScopeInv'
  <2>1. WalkOK(walk', stage')
    BY <1>1 DEF LookupInv, ScopeInv, WalkOK
  <2> QED
    BY <1>1, <2>1, ScopeInvNext
<1> QED
  BY <1>2, <1>3, <1>4 DEF LookupInv

LEMMA LookupStep == LookupInv /\ [LookupNext \/ LookupStopped]_scopeVars => LookupInv'
<1>1. LookupInv /\ LookupNext => LookupInv'
  BY EnvNext, TrailNext, ScopeNext DEF LookupInv
<1> QED
  BY <1>1, LookupStutters DEF LookupStopped

-----------------------------------------------------------------------------
(* The directories an image inherits are those of the chain of its owners, *)
(* the only function of the scope and its owners that the recursion allows.*)
FromOwners(f, scope, owner) ==
    f = [k \in DOMAIN scope |-> IF k = 1 THEN <<>> ELSE Rpath(scope[owner[k]].path) \o f[owner[k]]]

LEMMA InheritedFromOwners ==
    ASSUME NEW scope, NEW n \in Nat \ {0}, DOMAIN scope = 1 .. n, NEW owner, NEW inherits, NEW others,
           \A k \in 2 .. n : owner[k] \in 1 .. n /\ owner[k] < k,
           FromOwners(inherits, scope, owner), FromOwners(others, scope, owner)
    PROVE  inherits = others
<1> DEFINE wrong == {k \in 1 .. n : inherits[k] # others[k]}
<1>1. CASE wrong = {}
  <2>1. \A k \in 1 .. n : inherits[k] = others[k]
    BY <1>1
  <2>2. inherits = [k \in 1 .. n |-> inherits[k]] /\ others = [k \in 1 .. n |-> others[k]]
    BY DEF FromOwners
  <2> QED
    BY <2>1, <2>2
<1>2. CASE wrong # {}
  <2>1. wrong \in SUBSET Nat
    OBVIOUS
  <2>2. PICK k \in wrong : \A j \in wrong : k <= j
    <3> HIDE DEF wrong
    <3> QED
      BY <1>2, <2>1, LeastOfSet
  <2>3. k \in 1 .. n /\ inherits[k] # others[k]
    BY <2>2
  <2>4. k # 1
    BY <2>3 DEF FromOwners
  <2>5. k \in 2 .. n
    <3>1. \A m \in 1 .. n : m # 1 => m \in 2 .. n
      OBVIOUS
    <3> QED
      BY ONLY <2>3, <2>4, <3>1
  <2>6. PICK o \in 1 .. n : o = owner[k] /\ o < k
    BY <2>5
  <2>7. o \notin wrong
    BY <2>2, <2>3, <2>6
  <2>8. inherits[o] = others[o]
    BY <2>6, <2>7
  <2>9. inherits[k] = Rpath(scope[o].path) \o inherits[o] /\ others[k] = Rpath(scope[o].path) \o others[o]
    BY <2>4, <2>5, <2>6 DEF FromOwners
  <2> QED
    BY <2>3, <2>8, <2>9
<1> QED
  BY <1>1, <1>2

LEMMA InheritanceIsInherited ==
    ASSUME NEW scope, NEW owner, NEW done, NEW loader, IsSequence(scope), scope # <<>>,
           scope[1].inherited = <<>>, OwnedBy(scope, owner, done, loader), done \in 1 .. Len(scope)
    PROVE  Inheritance(scope, owner) = Inherits(scope)
<1>1. PICK n \in Nat \ {0} : n = Len(scope) /\ DOMAIN scope = 1 .. n
  BY SequenceParts
<1>2. ASSUME NEW k \in 2 .. n PROVE owner[k] \in 1 .. n /\ owner[k] < k
  <2>1. owner \in [2 .. n -> 1 .. done] /\ owner[k] < k
    BY <1>1 DEF OwnedBy, Needer
  <2>2. 1 .. done \subseteq 1 .. n
    BY <1>1
  <2> QED
    BY <2>1, <2>2
<1>3. ASSUME NEW k \in 2 .. n
      PROVE  scope[k].inherited = Rpath(scope[owner[k]].path) \o scope[owner[k]].inherited
  BY <1>1 DEF OwnedBy, Needer
<1>4. PICK old : old = Inherits(scope)
  OBVIOUS
<1>5. \A k \in 1 .. n : old[k] = scope[k].inherited
  BY <1>1, <1>4 DEF Inherits
<1>6. old = [k \in DOMAIN scope |-> old[k]]
  BY <1>4 DEF Inherits
<1>7. \A k \in 1 .. n : k = 1 \/ k \in 2 .. n
  OBVIOUS
<1>8. \A k \in DOMAIN scope :
        old[k] = IF k = 1 THEN <<>> ELSE Rpath(scope[owner[k]].path) \o old[owner[k]]
  BY <1>1, <1>2, <1>3, <1>5, <1>7
<1>9. FromOwners(old, scope, owner)
  BY <1>6, <1>8 DEF FromOwners
<1>10. PICK chain : chain = Inheritance(scope, owner)
  OBVIOUS
<1>11. FromOwners(chain, scope, owner)
  <2>1. chain = CHOOSE c : c = [k \in DOMAIN scope |->
                  IF k = 1 THEN <<>> ELSE Rpath(scope[owner[k]].path) \o c[owner[k]]]
    BY <1>10, Zenon DEF Inheritance
  <2> QED
    BY <1>9, <2>1, Zenon DEF FromOwners
<1>12. chain = old
  BY ONLY n \in Nat \ {0}, <1>1, <1>2, <1>9, <1>11, InheritedFromOwners, Zenon
<1> QED
  BY <1>4, <1>10, <1>12

(* When every image of a scope is opened, the scope is what it should be.  *)
LEMMA OpenedScope ==
    ASSUME ScopeInv, stage = "opening", Opened
    PROVE  ScopeIsLoaders(walk.scope, walk.loader) /\ SonamesDiffer(walk.scope)
<1>1. PICK s : s = walk.scope
  OBVIOUS
<1>2. PICK done : done = walk.at - 1
  OBVIOUS
<1>3. /\ Lists(walk) /\ Place(walk, "opening") /\ Owned(s, done, walk.loader)
      /\ Needs(walk, "opening") /\ Sonames(walk, "opening")
  BY <1>1, <1>2 DEF ScopeInv, WalkOK, Collected, Done
<1>4. /\ IsSequence(s) /\ s # <<>> /\ s[1].inherited = <<>>
  BY <1>1, <1>3 DEF Lists
<1>5. PICK n \in Nat \ {0} : n = Len(s) /\ DOMAIN s = 1 .. n
  BY <1>4, SequenceParts
<1>6. walk.at \in 1 .. n + 1 /\ (request.tool = "needed" => done <= 1)
  BY <1>1, <1>2, <1>3, <1>5 DEF Place, Done
<1>7. walk.at > n \/ (request.tool = "needed" /\ walk.at > 1)
  BY <1>1, <1>5 DEF Opened
<1>8. done \in 1 .. n /\ OpenedImages(s) = 1 .. done
  <2>1. CASE request.tool = "needed"
    <3>1. done = 1
      BY <1>2, <1>6, <1>7, <2>1
    <3>2. OpenedImages(s) = {1}
      BY <2>1 DEF OpenedImages
    <3> QED
      BY <3>1, <3>2
  <2>2. CASE request.tool # "needed"
    <3>1. done = n
      BY <1>2, <1>6, <1>7, <2>2
    <3>2. OpenedImages(s) = 1 .. n
      BY <1>5, <2>2 DEF OpenedImages
    <3> QED
      BY <3>1, <3>2
  <2> QED
    BY <2>1, <2>2
<1>9. PICK owner : OwnedBy(s, owner, done, walk.loader)
  BY <1>3 DEF Owned
<1>10. owner \in Owners(s)
  <2>1. owner \in [2 .. Len(s) -> OpenedImages(s)]
    BY <1>8, <1>9 DEF OwnedBy
  <2>2. \A k \in DOMAIN owner : owner[k] < k
    BY <1>9 DEF OwnedBy, Needer
  <2>3. \A j, k \in DOMAIN owner : j < k => owner[j] <= owner[k]
    BY <1>9 DEF OwnedBy
  <2> QED
    BY <2>1, <2>2, <2>3 DEF Owners
<1>11. Inheritance(s, owner) = Inherits(s)
  BY <1>4, <1>5, <1>8, <1>9, InheritanceIsInherited
<1>12. ASSUME NEW k \in DOMAIN owner
       PROVE  \E t \in NeedsOf(s, owner[k]) : Finds(s, Inherits(s), walk.loader, owner[k], t) = s[k].path
  <2>1. k \in 2 .. n /\ owner[k] \in 1 .. n
    BY <1>5, <1>8, <1>9 DEF OwnedBy
  <2>2. PICK o \in 1 .. n : o = owner[k]
    BY <2>1
  <2>3. Needer(s, walk.loader, o, k)
    BY <1>5, <1>9, <2>1, <2>2 DEF OwnedBy
  <2>4. Inherits(s)[o] = s[o].inherited
    BY <1>5 DEF Inherits
  <2> QED
    BY <2>2, <2>3, <2>4 DEF Needer, Finds
<1>13. \A j \in OpenedImages(s) : \A t \in NeedsOf(s, j) : Supplied(s, Inherits(s), walk.loader, j, t)
  <2>1. \A j \in 1 .. walk.at - 1 : \A t \in NeedsOf(s, j) : Has(s, walk.loader, j, t)
    BY <1>1, <1>3 DEF Needs
  <2> QED
    BY <1>2, <1>8, <2>1 DEF Has
<1>14. LoadedFor(s, owner, Inherits(s), walk.loader)
  BY <1>12, <1>13, Zenon DEF LoadedFor
<1>15. ScopeIsLoaders(s, walk.loader)
  BY <1>10, <1>11, <1>14, Zenon DEF ScopeIsLoaders
<1>16. SonamesDiffer(s)
  BY <1>1, <1>3 DEF Sonames
<1> QED
  BY <1>1, <1>15, <1>16

LEMMA LookupInvSuffices == LookupInv => LookupsFollowTheLoader
<1> SUFFICES ASSUME LookupInv PROVE LookupsFollowTheLoader
  OBVIOUS
<1>1. stage = "exited" => environment = request.environment
  BY DEF LookupInv, EnvInv
<1>2. (stage = "exited" /\ output # Refusal) => FirstAnswer /\ PreloadsDiffer
  BY DEF LookupInv, TrailInv
<1>3. (stage = "opening" /\ Opened) => ScopeIsLoaders(walk.scope, walk.loader) /\ SonamesDiffer(walk.scope)
  BY OpenedScope DEF LookupInv
<1> QED
  BY <1>1, <1>2, <1>3 DEF LookupsFollowTheLoader

(* mini-elf-needed-*-resolve: for any disk, images, environment and command*)
(* line, the scope collected is the one a loader would collect: each image *)
(* was needed by an earlier one and lies where that one's directories lead *)
(* first, and what any of them needs is there.  The symbol reported is that*)
(* of the first image looked at that has one, and when the tool exits      *)
(* LD_PRELOAD and LD_LIBRARY_PATH are what they were before.               *)
THEOREM LookupsFollow == LookupSpec => []LookupsFollowTheLoader
<1>1. LookupSpec => []LookupInv
  BY LookupInitially, LookupStep, PTL DEF LookupSpec
<1> QED
  BY <1>1, LookupInvSuffices, PTL
=============================================================================
