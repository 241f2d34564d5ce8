----------------------------- MODULE FileSearch -----------------------------
(***************************************************************************)
(* The search of the main window: every change of the text starts a search *)
(* under a new generation, after a pause, in a background task with a flag *)
(* to cancel it; the field may be dismissed, closed by a navigation, and   *)
(* opened again while tasks and the timer of its closing animation run.    *)
(*                                                                         *)
(* What a search finds is abstracted to the root and the text it searched  *)
(* for, and whether the walk was left early.                               *)
(***************************************************************************)
EXTENDS Integers, FiniteSets, TLC

CONSTANTS
    Folders,        \* what tab.path may be
    Home,           \* home_root
    Texts,          \* what the user may type
    NoText,         \* the empty text
    MaxStrokes      \* bound on what the user does

ASSUME SearchPlaces == Home \notin Folders /\ NoText \notin Texts
ASSUME SearchBound == MaxStrokes \in Nat

VARIABLES
    place,        \* tab.path and whether tab.root is the trash
    field,        \* FileSearchState without what follows
    hits,         \* its results: what they are hits of
    searchers,    \* the background task of every generation
    closers,      \* timers of the closing animation
    strokes

searchVars == <<place, field, hits, searchers, closers, strokes>>

NoHits == [root |-> Home, text |-> NoText, whole |-> TRUE]
NoFlag == 0

SearchInit ==
    /\ place \in [path : Folders, trash : {FALSE}]
    /\ field = [open |-> FALSE, closing |-> FALSE, loading |-> FALSE, scope |-> "CurrentFolder",
                root |-> place.path, text |-> NoText, gen |-> 0, cancel |-> NoFlag]
    /\ hits = NoHits
    /\ searchers = << >>
    /\ closers = 0
    /\ strokes = 0

-----------------------------------------------------------------------------
\* cancel.take() and store(true)
Raised == [g \in DOMAIN searchers |-> [searchers[g] EXCEPT !.cancelled = @ \/ g = field.cancel]]

Stroke == strokes < MaxStrokes /\ strokes' = strokes + 1
RootOf(scope) == IF scope = "Home" THEN Home ELSE place.path

\* Defect: the new search shares the flag of the one it replaces.
Defect_UpdateSearch(f, text) ==
    LET g == f.gen + 1 IN
    /\ hits' = NoHits
    /\ IF text = NoText
       THEN /\ field' = [f EXCEPT !.text = text, !.gen = g, !.cancel = NoFlag, !.loading = FALSE]
            /\ searchers' = Raised
       ELSE /\ field' = [f EXCEPT !.text = text, !.gen = g, !.cancel = g, !.loading = TRUE]
            /\ searchers' = Raised @@
                 g :> [pc |-> "pause", root |-> f.root, text |-> text,
                       cancelled |-> (field.cancel # NoFlag), whole |-> TRUE]

\* update_file_search, f the field with its new scope
UpdateSearch(f, text) ==
    LET g == f.gen + 1 IN
    /\ hits' = NoHits
    /\ IF text = NoText
       THEN /\ field' = [f EXCEPT !.text = text, !.gen = g, !.cancel = NoFlag, !.loading = FALSE]
            /\ searchers' = Raised
       ELSE /\ field' = [f EXCEPT !.text = text, !.gen = g, !.cancel = g, !.loading = TRUE]
            /\ searchers' = Raised @@
                 g :> [pc |-> "pause", root |-> f.root, text |-> text, cancelled |-> FALSE, whole |-> TRUE]

\* activate_file_search
ActivateSearch ==
    /\ Stroke
    /\ LET scope == IF place.trash THEN "Home" ELSE field.scope IN
         field' = [field EXCEPT !.scope = scope, !.root = RootOf(scope), !.open = TRUE, !.closing = FALSE]
    /\ UNCHANGED <<place, hits, searchers, closers>>

\* TextInputEvent::Changed
TypeText(text) ==
    /\ Stroke /\ field.open /\ ~field.closing /\ text # field.text
    /\ UpdateSearch(field, text)
    /\ UNCHANGED <<place, closers>>

\* select_file_search_scope
SelectScope(scope) ==
    /\ Stroke /\ field.open
    /\ ~(scope = "CurrentFolder" /\ place.trash)
    /\ <<field.scope, field.root>> # <<scope, RootOf(scope)>>
    /\ UpdateSearch([field EXCEPT !.scope = scope, !.root = RootOf(scope)], field.text)
    /\ UNCHANGED <<place, closers>>

\* finish_file_search_close; the change of the text comes when the field is closed
Closed(f) == [f EXCEPT !.open = FALSE, !.closing = FALSE, !.loading = FALSE, !.text = NoText, !.cancel = NoFlag]
FinishClose(f) == field' = Closed(f) /\ hits' = NoHits /\ searchers' = Raised

\* dismiss_file_search, with and without animations
DismissSearch ==
    /\ Stroke /\ field.open /\ ~field.closing
    /\ LET f == [field EXCEPT !.gen = @ + 1, !.cancel = NoFlag, !.loading = FALSE] IN
         \/ FinishClose(f) /\ UNCHANGED closers
         \/ /\ field' = [f EXCEPT !.closing = TRUE]
            /\ searchers' = Raised
            /\ closers' = closers + 1
            /\ UNCHANGED hits
    /\ UNCHANGED place

\* the timer of the animation, also of an earlier dismissal
CloseTimer ==
    /\ closers > 0
    /\ closers' = closers - 1
    /\ IF field.closing THEN FinishClose(field) ELSE UNCHANGED <<field, hits, searchers>>
    /\ UNCHANGED <<place, strokes>>

\* activate_path_input closes the field
EditPath ==
    /\ Stroke /\ field.open
    /\ FinishClose(field)
    /\ UNCHANGED <<place, closers>>

\* a navigation with load_directory, also by a click on a hit
Navigate(to) ==
    /\ Stroke /\ to # place
    /\ place' = to
    /\ \/ IF field.open /\ field.scope = "CurrentFolder" /\ field.root # to.path
          THEN FinishClose(field) ELSE UNCHANGED <<field, hits, searchers>>
       \/ field.open /\ hits # NoHits /\ FinishClose(field)
    /\ UNCHANGED closers

-----------------------------------------------------------------------------
SearcherAt(g, pc) == g \in DOMAIN searchers /\ searchers[g].pc = pc
SearcherEnds(g) == searchers' = [h \in DOMAIN searchers \ {g} |-> searchers[h]]

\* the pause is over
SearchStarts(g) ==
    /\ SearcherAt(g, "pause")
    /\ IF searchers[g].cancelled THEN SearcherEnds(g) ELSE searchers' = [searchers EXCEPT ![g].pc = "walk"]
    /\ UNCHANGED <<place, field, hits, closers, strokes>>

\* search_paths: a cancelled walk is left early, with what it has found
SearchWalks(g) ==
    /\ SearcherAt(g, "walk")
    /\ \E whole \in {TRUE, ~searchers[g].cancelled} :
         searchers' = [searchers EXCEPT ![g].pc = "found", ![g].whole = whole]
    /\ UNCHANGED <<place, field, hits, closers, strokes>>

\* the result, or the error that the root is no folder, reaches the window
TakeHits(g) ==
    /\ SearcherAt(g, "found")
    /\ SearcherEnds(g)
    /\ IF g # field.gen \/ ~field.open \/ field.closing
       THEN UNCHANGED <<field, hits>>
       ELSE /\ field' = [field EXCEPT !.loading = FALSE]
            /\ hits' = [root |-> searchers[g].root, text |-> searchers[g].text, whole |-> searchers[g].whole]
    /\ UNCHANGED <<place, closers, strokes>>

Searcher(g) == SearchStarts(g) \/ SearchWalks(g) \/ TakeHits(g)

SearchNext ==
    \/ ActivateSearch \/ DismissSearch \/ CloseTimer \/ EditPath
    \/ \E text \in Texts \union {NoText} : TypeText(text)
    \/ \E scope \in {"CurrentFolder", "Home"} : SelectScope(scope)
    \/ \E path \in Folders, trash \in BOOLEAN : Navigate([path |-> path, trash |-> trash])
    \/ \E g \in DOMAIN searchers : Searcher(g)

SearchSpec == SearchInit /\ [][SearchNext]_searchVars

\* Timers fire and tasks run; there are finitely many of them.
SearchFairness == WF_searchVars(CloseTimer \/ \E g \in DOMAIN searchers : Searcher(g))

\* A search under this root runs; activate_file_search changes the root of the
\* field in the trash and starts no search, and a result that arrives during the
\* closing animation is dropped, even if the field is then opened again.
Asked(root) == field.gen \in DOMAIN searchers /\ searchers[field.gen].root = root

\* update_file_search and its generation: while the field stays open, the hits
\* come to be those of a whole search for the text that is then in it, whatever
\* was typed, dismissed or closed before and however late the earlier searches
\* return.
SearchIsAnswered ==
    \A root \in Folders \union {Home} :
        (field.open /\ field.loading /\ field.root = root /\ Asked(root)) ~>
            (hits = [root |-> root, text |-> field.text, whole |-> TRUE]
             \/ ~field.open \/ field.closing \/ field.text = NoText \/ field.root # root)
=============================================================================
