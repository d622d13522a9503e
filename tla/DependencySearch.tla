---------------------------- MODULE DependencySearch ----------------------------
(***************************************************************************)
(* The searches for the files behind DT_NEEDED: by the linker              *)
(* (ProviderClosure), by an inspector that foretells the loader            *)
(* (LoaderScope), by threads that share one environment (SystemPreload).   *)
(* A process runs one of the three; the others are over from the start.    *)
(***************************************************************************)
EXTENDS ProviderClosure, LoaderScope, SystemPreload

NoClosure ==
    /\ link = <<>> /\ phase = "failed" /\ next = 1
    /\ names = <<>> /\ requirements = NoKeys /\ copies = NoKeys
    /\ direct = FALSE /\ required = {} /\ queue = <<>> /\ visited = {}
    /\ matched = FALSE /\ found = NoKeys
    /\ checked = <<>> /\ error = "none"
NoLookup ==
    /\ request = [environment |-> Nothing] /\ environment = Nothing
    /\ saved = <<>> /\ stage = "exited" /\ agenda = <<>> /\ trail = <<>>
    /\ walk = NoWalk /\ output = Refusal
NoPreload ==
    /\ schedule = [environment |-> Nothing]
    /\ calls = [t \in Threads |-> <<>>] /\ variables = Nothing
    /\ holder = Nobody /\ at = [t \in Threads |-> "outside"]
    /\ captured = [t \in Threads |-> Nothing] /\ reads = [t \in Threads |-> Nothing]

SearchVars == <<closureVars, scopeVars, preloadVars>>
SearchInit == \/ ClosureInit /\ NoLookup /\ NoPreload
              \/ NoClosure /\ LookupInit /\ NoPreload
              \/ NoClosure /\ NoLookup /\ PreloadInit

LinkerStep    == ClosureNext /\ UNCHANGED <<scopeVars, preloadVars>>
InspectorStep == LookupNext /\ UNCHANGED <<closureVars, preloadVars>>
CallerStep(t) == ThreadStep(t) /\ UNCHANGED <<closureVars, scopeVars>>
SearchEnded   == ClosureEnded /\ LookupEnded /\ PreloadEnded
SearchNext ==
    \/ LinkerStep \/ InspectorStep \/ \E t \in Threads : CallerStep(t)
    \/ SearchEnded /\ UNCHANGED SearchVars

(* Reading a file returns, and every thread goes on when it can.  The lock *)
(* stays free once the other threads' calls, which are finitely many, are  *)
(* over, so a thread that waits for it needs no more than weak fairness.   *)
SearchSpec ==
    /\ SearchInit /\ [][SearchNext]_SearchVars
    /\ WF_SearchVars(LinkerStep) /\ WF_SearchVars(InspectorStep)
    /\ \A t \in Threads : WF_SearchVars(CallerStep(t))

(* Every search ends (inspect_transitive_provider_exports, the scopes of   *)
(* the needed-resolve tools, SystemPreloadRequest::resolve), though files  *)
(* need each other, a tool calls a tool, threads wait for one lock and one *)
(* of them panics while it holds it.                                       *)
EverySearchEnds == <>SearchEnded
=============================================================================
