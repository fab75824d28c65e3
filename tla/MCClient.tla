------------------------------ MODULE MCClient ------------------------------
(***************************************************************************)
(* The clients: a composer and the cached lists of a tab of the web client, the*)
(* list and the compose sheet of the iOS app, each on its own instance.    *)
(***************************************************************************)
EXTENDS Composer, RealtimeView, IosStore

VARIABLE part

Symmetry == Permutations(Threads)

\* Either all in the inbox, or the oldest trashed and the newest yet to come.
Mixed == [t \in Conversations |-> IF t = 1 THEN "trash" ELSE IF t + 1 = Top THEN "coming" ELSE "inbox"]

MCInit ==
    /\ part \in {"composer", "view", "list", "sheet"}
    /\ ComposerInit /\ ViewInit /\ IosInit /\ SheetInit
    /\ \E t \in Threads : ~server[t].trashed
    /\ part # "composer" => form.text = Blank /\ form.id = None
    /\ part # "view" => mounted = Own /\ \A t \in Threads : ~server[t].trashed
    \* More threads, fewer moves.
    /\ spent.moves = Cardinality({t \in Threads : ~server[t].trashed}) - 1
    /\ home = [t \in Conversations |-> "inbox"] \/ (part = "list" /\ home = Mixed)
    /\ part # "sheet" => sheet.text = Empty

MCNext ==
    /\ UNCHANGED part
    /\ \/ /\ part = "composer" /\ ComposerNext
          /\ UNCHANGED <<viewVars, iosVars, sheetVars>>
       \/ /\ part = "view" /\ ViewNext
          /\ UNCHANGED <<composerVars, iosVars, sheetVars>>
       \/ /\ part = "list" /\ IosNext
          /\ UNCHANGED <<composerVars, viewVars, sheetVars>>
       \/ /\ part = "sheet" /\ SheetNext
          /\ UNCHANGED <<composerVars, viewVars, iosVars>>

MCVars == <<part, composerVars, viewVars, iosVars, sheetVars>>

MCSpec == MCInit /\ [][MCNext]_MCVars
=============================================================================
