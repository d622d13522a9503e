---------------------------- MODULE InputSequence ---------------------------
(***************************************************************************)
(* From the arguments of `partial' and `link' to the sequence of inputs of *)
(* the link: nested groups are flattened (library_search.rs), the files are*)
(* read, the --whole-archive state is followed through push and pop, and a *)
(* group's lazy archives are repeated (load_link_input_sequence, main.rs). *)
(***************************************************************************)
EXTENDS InputFiles, SequencesExt

CONSTANTS ArgumentLists,  \* the argument lists that may be given
          Commands        \* a subset of {"partial", "link"}

Markers == {"--start-group", "--end-group", "--push-state", "--pop-state",
            "--whole-archive", "--no-whole-archive"}

ASSUME ArgumentsAssumption ==
    /\ Paths \cap Markers = {}
    /\ \A a \in ArgumentLists : a \in Seq(Paths \cup Markers)
    /\ Commands \subseteq {"partial", "link"}

VARIABLES
    command,
    arguments,      \* what resolve_static_library_arguments returns
    argPos,         \* the argument being read
    whole,          \* whole_archive
    stateStack,     \* the saved values of whole
    inGroup,        \* whether the inner loop is running
    groupInputs,    \* the inputs of the group being read
    archiveInputs,  \* those of them a scan may visit again
    memberCount,    \* the ordinary members of archiveInputs
    files,          \* the paths read, in order
    loaded,         \* the input sequence
    groupSpans,     \* history: where each group stands in loaded, and what
                    \* its repetitions are made of
    loading,        \* "reading", "loaded" or "refused"
    loadError

loadVars == <<command, arguments, argPos, whole, stateStack, inGroup, groupInputs,
              archiveInputs, memberCount, files, loaded, groupSpans, loading, loadError>>

-----------------------------------------------------------------------------
(* Groups open before the argument i of the list a.                        *)
DepthAt(a, i) == Cardinality({j \in 1 .. i - 1 : a[j] = "--start-group"})
               - Cardinality({j \in 1 .. i - 1 : a[j] = "--end-group"})

Balanced(a) == /\ \A i \in DOMAIN a : DepthAt(a, i) >= 0
               /\ DepthAt(a, Len(a) + 1) = 0

InnerMarker(a, i) ==
    \/ a[i] = "--start-group" /\ DepthAt(a, i) > 0
    \/ a[i] = "--end-group" /\ DepthAt(a, i) > 1

(* Balanced nested groups become one group; other lists stay as they are.  *)
Flatten(a) ==
    IF Balanced(a)
    THEN LET kept == SelectSeq([i \in DOMAIN a |-> i], LAMBDA i : ~InnerMarker(a, i))
         IN [k \in 1 .. Len(kept) |-> a[kept[k]]]
    ELSE a

(* `partial' looks at the nesting before the flattening; an unmatched end  *)
(* marker does not take its depth below zero.                              *)
PartialDepthAt(a, i) ==
    FoldLeft(LAMBDA d, t : IF t = "--start-group" THEN 1
                           ELSE IF t = "--end-group" THEN 0 ELSE d,
             0, SubSeq(a, 1, i - 1))
NestingRefused(a) ==
    \E i \in DOMAIN a : a[i] = "--start-group" /\ PartialDepthAt(a, i) = 1

PushOrPop(a) == \E i \in DOMAIN a : a[i] \in {"--push-state", "--pop-state"}

(* The list a of a command c is taken up, unless it was refused before.    *)
LoadStarts(c, a, refusal) ==
    LET reason == IF refusal # "none" THEN refusal
                  ELSE IF a = <<>> THEN "MissingInput"
                  ELSE IF c = "partial" /\ PushOrPop(a) THEN "PushStateInPartial" ELSE "none"
    IN /\ command = c /\ arguments = a
       /\ loading = IF reason = "none" THEN "reading" ELSE "refused"
       /\ loadError = reason
       /\ argPos = 1 /\ whole = FALSE /\ stateStack = <<>> /\ inGroup = FALSE
       /\ groupInputs = <<>> /\ archiveInputs = <<>> /\ memberCount = 0
       /\ files = <<>> /\ loaded = <<>> /\ groupSpans = <<>>

LoadInit ==
    \E a \in ArgumentLists, c \in Commands :
        LoadStarts(c, Flatten(a), IF c = "partial" /\ NestingRefused(a) THEN "NestedGroup" ELSE "none")

-----------------------------------------------------------------------------
Token == arguments[argPos]
Reading(tokens) == loading = "reading" /\ argPos \in DOMAIN arguments /\ Token \in tokens
NextArgument == argPos' = argPos + 1

Refuse(reason) ==
    /\ loading' = "refused" /\ loadError' = reason
    /\ UNCHANGED <<command, arguments, argPos, whole, stateStack, inGroup, groupInputs,
                   archiveInputs, memberCount, files, loaded, groupSpans>>

groupVars  == <<inGroup, groupInputs, archiveInputs, memberCount>>
outputVars == <<files, loaded, groupSpans>>
fixedVars  == <<command, arguments, loading, loadError>>

PushState ==
    /\ Reading({"--push-state"}) /\ NextArgument
    /\ stateStack' = Append(stateStack, whole)
    /\ UNCHANGED <<whole, groupVars, outputVars, fixedVars>>

PopStateKeepingWhole ==
    /\ Reading({"--pop-state"})
    /\ IF stateStack = <<>> THEN Refuse("UnmatchedPop")
       ELSE /\ stateStack' = Front(stateStack) /\ NextArgument
            /\ UNCHANGED <<whole, groupVars, outputVars, fixedVars>>
PopState ==
    /\ Reading({"--pop-state"})
    /\ IF stateStack = <<>> THEN Refuse("UnmatchedPop")
       ELSE /\ whole' = Last(stateStack)
            /\ stateStack' = Front(stateStack) /\ NextArgument
            /\ UNCHANGED <<groupVars, outputVars, fixedVars>>

SetWhole ==
    /\ Reading({"--whole-archive", "--no-whole-archive"}) /\ NextArgument
    /\ whole' = (Token = "--whole-archive")
    /\ UNCHANGED <<stateStack, groupVars, outputVars, fixedVars>>

StartGroup ==
    /\ Reading({"--start-group"})
    /\ IF inGroup THEN Refuse("NestedGroup")
       ELSE /\ inGroup' = TRUE /\ NextArgument
            /\ groupInputs' = <<>> /\ archiveInputs' = <<>> /\ memberCount' = 0
            /\ UNCHANGED <<whole, stateStack, outputVars, fixedVars>>

(* The file just read, under the number the loader gives it.               *)
NewInput(p) == [file |-> Len(files) + 1, path |-> p, whole |-> whole]

ReadInput ==
    /\ Reading(Paths) /\ ~inGroup
    /\ IF Content[Token].kind = "unreadable" THEN Refuse("Unreadable")
       ELSE /\ files' = Append(files, Token)
            /\ loaded' = Append(loaded, NewInput(Token))
            /\ NextArgument
            /\ UNCHANGED <<groupSpans, whole, stateStack, groupVars, fixedVars>>

(* The inputs of a group its repetitions visit again.                      *)
Rescanned(p) == HasArchiveMagic(p) /\ ~whole

(* A lazy archive named in a group is parsed at once, to count its members.*)
ReadGroupInput ==
    /\ Reading(Paths) /\ inGroup
    /\ IF Content[Token].kind = "unreadable" THEN Refuse("Unreadable")
       ELSE IF Rescanned(Token) /\ Content[Token].kind = "badarchive"
       THEN Refuse("InvalidArchive")
       ELSE /\ files' = Append(files, Token)
            /\ groupInputs' = Append(groupInputs, NewInput(Token))
            /\ archiveInputs' = IF Rescanned(Token) THEN Append(archiveInputs, NewInput(Token))
                                ELSE archiveInputs
            /\ memberCount' = IF Rescanned(Token)
                              THEN memberCount + Len(Content[Token].members)
                              ELSE memberCount
            /\ NextArgument
            /\ UNCHANGED <<loaded, groupSpans, inGroup, whole, stateStack, fixedVars>>

(* s repeated n times over.                                                *)
Repeated(s, n) == [k \in 1 .. n * Len(s) |-> s[((k - 1) % Len(s)) + 1]]

(* After the group itself, its lazy archives once for every member they    *)
(* have: each repetition that is not the last can extract one at least.    *)
RepetitionsOneShort(archives, n) == Repeated(archives, n - 1)
Repetitions(archives, n) == Repeated(archives, n)

EndGroup ==
    /\ Reading({"--end-group"})
    /\ IF ~inGroup THEN Refuse("UnmatchedEnd")
       ELSE IF groupInputs = <<>> THEN Refuse("EmptyGroup")
       ELSE /\ loaded' = loaded \o groupInputs \o Repetitions(archiveInputs, memberCount)
            /\ groupSpans' = Append(groupSpans,
                                [first |-> Len(loaded) + 1, last |-> Len(loaded'),
                                 size |-> Len(groupInputs),
                                 archives |-> archiveInputs, turns |-> memberCount])
            /\ inGroup' = FALSE /\ NextArgument
            /\ UNCHANGED <<groupInputs, archiveInputs, memberCount, files,
                           whole, stateStack, fixedVars>>

EndArguments ==
    /\ loading = "reading" /\ argPos > Len(arguments)
    /\ IF inGroup THEN Refuse("MissingEnd")
       ELSE IF stateStack # <<>> THEN Refuse("MissingPop")
       ELSE IF loaded = <<>> THEN Refuse("MissingInput")
       ELSE /\ loading' = "loaded"
            /\ UNCHANGED <<command, arguments, argPos, whole, stateStack, groupVars,
                           outputVars, loadError>>

LoadNext == \/ PushState \/ PopState \/ SetWhole \/ StartGroup \/ ReadInput
            \/ ReadGroupInput \/ EndGroup \/ EndArguments

-----------------------------------------------------------------------------
(* What the pushes and pops around an argument say of it, with no stack:   *)
(* the last --whole-archive or --no-whole-archive before it that stands in *)
(* no push/pop pair already closed.                                        *)
PushDepth(i) == Cardinality({j \in 1 .. i - 1 : arguments[j] = "--push-state"})
              - Cardinality({j \in 1 .. i - 1 : arguments[j] = "--pop-state"})
InScope(k, i) == \A j \in k + 1 .. i : PushDepth(j) >= PushDepth(k)
WholeAt(i) ==
    LET set == {k \in 1 .. i - 1 : /\ arguments[k] \in {"--whole-archive", "--no-whole-archive"}
                                   /\ InScope(k, i)}
    IN set # {} /\ arguments[CHOOSE k \in set : \A j \in set : j <= k] = "--whole-archive"

(* Every file is linked under the --whole-archive state of the place that  *)
(* names it, groups, pushes and pops notwithstanding, and a repetition of a*)
(* group never turns a lazy archive into a whole one.                      *)
ArgumentOf(n) == CHOOSE i \in DOMAIN arguments :
                    /\ arguments[i] \in Paths
                    /\ Cardinality({j \in 1 .. i : arguments[j] \in Paths}) = n
WholeIsScoped ==
    \A i \in DOMAIN loaded : loaded[i].whole = WholeAt(ArgumentOf(loaded[i].file))

(* The loaded sequence names every file, in argument order at its first    *)
(* place; what is not a lazy archive it names once only, so that a         *)
(* repeated group links no object and no whole archive a second time.      *)
RootsAppearOnce ==
    loading = "loaded" =>
        LET Places(n) == {i \in DOMAIN loaded : loaded[i].file = n}
            First(n) == CHOOSE i \in Places(n) : \A j \in Places(n) : i <= j
        IN /\ \A n \in DOMAIN files : Places(n) # {}
           /\ \A m, n \in DOMAIN files : m < n => First(m) < First(n)
           /\ \A i, j \in DOMAIN loaded :
                  (i # j /\ loaded[i].file = loaded[j].file) =>
                      HasArchiveMagic(loaded[i].path) /\ ~loaded[i].whole

(* What the linker is given is what the arguments say, whatever the order  *)
(* of markers, pushes and pops.                                            *)
LoadedAsWritten == WholeIsScoped /\ RootsAppearOnce
=============================================================================
