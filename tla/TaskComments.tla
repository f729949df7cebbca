---------------------------- MODULE TaskComments ----------------------------
(* The comment drawer of the artist desk and of the task board: one view      *)
(* model that fetches, posts and ticks with a worker each, the panel that     *)
(* shows a thread and holds the text being written, the badges that a summary *)
(* of all threads fills, and the file that remembers what was seen.           *)
(*                                                                            *)
(* Kitsu's comments are numbered in the order they are made; the number is    *)
(* the time. A worker's end is handled together with its result.              *)
EXTENDS Naturals, FiniteSets, Sequences, FiniteSetsExt

CONSTANTS
    Threads,        \* the tasks one can comment on
    Items,          \* the entries of a checklist
    MaxComments, MaxActs, MaxRefusals,   \* bounds
    NoThread, NoText

ASSUME CommentsAssumption ==
    /\ {MaxComments, MaxActs, MaxRefusals} \subseteq Nat
    /\ NoThread \notin Threads /\ NoText \notin [n : Nat, for : Threads]

VARIABLES
    kitsu,      \* the comments on the server, and whether mine were answered for
    drawer,     \* the panel: thread, what it shows and as whose, text, flags
    vm,         \* the view model: thread, comments, mark, pending load, revert
    fetching, posting, ticking,   \* its three workers
    summary,    \* the worker that counts
    seen,       \* last seen comment of each thread; 0 when it never was observed
    badges, delivered,  \* shown counts; the newest comment brought to this Hub
    acts, refused

threadVars == <<kitsu, drawer, vm, fetching, posting, ticking, summary, seen, badges,
                delivered, acts, refused>>

NoComments == [i \in {} |-> {}]
Idle == [at |-> "idle"]
Act == acts < MaxActs /\ acts' = acts + 1
Refusal == refused < MaxRefusals /\ refused' = refused + 1

OfThread(t, n) == {i \in 1..n : kitsu[i].of = t}
\* A checklist in whatever form Kitsu sends it: the entries that are ticked.
Ticks(i) == kitsu[i].ticks
Snapshot(t) == [i \in OfThread(t, Len(kitsu)) |-> Ticks(i)]
Newest(ids) == IF ids = {} THEN 0 ELSE Max(ids)
UnreadAmong(ids, since) == {i \in ids : ~kitsu[i].mine /\ i > since}

-----------------------------------------------------------------------------
CommentsInit ==
    /\ kitsu = << >> /\ acts = 0 /\ refused = 0
    /\ drawer = [thread |-> NoThread, as |-> NoThread, list |-> NoComments, loading |-> FALSE,
                 text |-> NoText, sending |-> FALSE, enabled |-> TRUE]
    /\ vm = [thread |-> NoThread, list |-> NoComments, mark |-> FALSE,
             pending |-> NoThread, revert |-> << >>]
    /\ fetching = Idle /\ posting = Idle /\ ticking = Idle /\ summary = Idle
    /\ seen = [t \in Threads |-> 0] /\ delivered = [t \in Threads |-> 0]
    /\ badges = [t \in Threads |-> [total |-> 0, unread |-> 0]]

(* A load takes the thread at once; while a fetch runs it waits for its end.  *)
Loading(v, t) ==
    [v EXCEPT !.thread = t, !.mark = TRUE,
              !.pending = IF fetching.at = "idle" THEN @ ELSE t]
StartFetch(t) ==
    fetching' = IF fetching.at = "idle" THEN [at |-> "asked", thread |-> t] ELSE fetching

(* What the view model emits reaches the panel when it shows that thread.     *)
Showing(d, t, list) ==
    IF d.thread # t THEN d
    ELSE [d EXCEPT !.as = t, !.list = list, !.loading = FALSE, !.sending = FALSE]

(* The panel turns to a thread: the text is cleared, the bubbles stay until   *)
(* the new ones come.                                                         *)
OpenComments(t) ==
    /\ Act
    /\ drawer' = [drawer EXCEPT !.thread = t, !.loading = TRUE, !.text = NoText, !.enabled = TRUE]
    /\ vm' = Loading(vm, t) /\ StartFetch(t)
    /\ UNCHANGED <<kitsu, posting, ticking, summary, seen, badges, delivered, refused>>

CloseComments ==
    /\ drawer.thread # NoThread
    /\ drawer' = [drawer EXCEPT !.thread = NoThread, !.loading = FALSE]
    /\ UNCHANGED <<kitsu, vm, fetching, posting, ticking, summary, seen, badges, delivered, acts, refused>>

-----------------------------------------------------------------------------
(* The fetch of a thread.                                                     *)

FetchReads ==
    /\ fetching.at = "asked"
    /\ \/ /\ fetching' = [at |-> "read", thread |-> fetching.thread,
                          got |-> Snapshot(fetching.thread)]
          /\ UNCHANGED refused
       \/ Refusal /\ fetching' = [at |-> "failed", thread |-> fetching.thread]
    /\ UNCHANGED <<kitsu, drawer, vm, posting, ticking, summary, seen, badges, delivered, acts>>

(* Marking stores the newest comment of the list, and clears the badge.       *)
StoreSeen(t, list) ==
    /\ seen' = [seen EXCEPT ![t] = IF list = NoComments THEN @ ELSE Newest(DOMAIN list)]
    /\ badges' = [badges EXCEPT ![t].unread = 0]

(* When a fetch ends, the load that waited starts.                            *)
Drained(v, d) ==
    IF v.pending = NoThread THEN vm' = v /\ drawer' = d /\ fetching' = Idle
    ELSE /\ vm' = [v EXCEPT !.thread = v.pending, !.mark = TRUE, !.pending = NoThread]
         /\ drawer' = [d EXCEPT !.enabled = TRUE]
         /\ fetching' = [at |-> "asked", thread |-> v.pending]

CommentsLoaded ==
    /\ fetching.at = "read" /\ fetching.thread = vm.thread
    /\ Drained([vm EXCEPT !.list = fetching.got, !.mark = FALSE],
               Showing(drawer, vm.thread, fetching.got))
    /\ delivered' = [delivered EXCEPT ![vm.thread] = Newest((DOMAIN fetching.got \union {@}) \ {0})]
    /\ IF vm.mark THEN StoreSeen(vm.thread, fetching.got) ELSE UNCHANGED <<seen, badges>>
    /\ UNCHANGED <<kitsu, posting, ticking, summary, acts, refused>>

(* Comments of a thread that was left are dropped; an error names no thread   *)
(* and is shown whatever the panel shows.                                     *)
CommentsDropped ==
    /\ fetching.at = "read" /\ fetching.thread # vm.thread /\ Drained(vm, drawer)
    /\ UNCHANGED <<kitsu, posting, ticking, summary, seen, badges, delivered, acts, refused>>

CommentsFailed ==
    /\ fetching.at = "failed" /\ Drained(vm, [drawer EXCEPT !.loading = FALSE])
    /\ UNCHANGED <<kitsu, posting, ticking, summary, seen, badges, delivered, acts, refused>>

-----------------------------------------------------------------------------
(* Writing and sending. Ctrl+Enter sends whatever the button says.            *)

Write ==
    /\ drawer.thread # NoThread /\ drawer.text = NoText /\ Act
    /\ drawer' = [drawer EXCEPT !.text = [n |-> acts', for |-> drawer.thread]]
    /\ UNCHANGED <<kitsu, vm, fetching, posting, ticking, summary, seen, badges, delivered, refused>>

(* (a slip of Post: nobody asks whether a post is running)                    *)
PostAgain ==
    /\ posting' = [at |-> "asked", thread |-> vm.thread, text |-> drawer.text]
    /\ drawer' = [drawer EXCEPT !.sending = TRUE] /\ UNCHANGED refused

(* Nothing happens while a post runs, though the panel says "Sending"; a      *)
(* status that cannot be found is an error at once.                           *)
Post ==
    \/ /\ posting.at # "idle"
       /\ drawer' = [drawer EXCEPT !.sending = TRUE] /\ UNCHANGED <<posting, refused>>
    \/ /\ posting.at = "idle"
       /\ posting' = [at |-> "asked", thread |-> vm.thread, text |-> drawer.text]
       /\ drawer' = [drawer EXCEPT !.sending = TRUE] /\ UNCHANGED refused
    \/ /\ posting.at = "idle" /\ Refusal
       /\ drawer' = [drawer EXCEPT !.sending = FALSE, !.loading = FALSE] /\ UNCHANGED posting

SendComment ==
    /\ drawer.thread # NoThread /\ drawer.text # NoText /\ Act /\ Post
    /\ UNCHANGED <<kitsu, vm, fetching, ticking, summary, seen, badges, delivered>>

Posted(answered) ==
    /\ Len(kitsu) < MaxComments
    /\ kitsu' = Append(kitsu, [of |-> posting.thread, mine |-> TRUE, ticks |-> {},
                               text |-> posting.text, answered |-> answered])

(* Kitsu takes the comment, or refuses it, or takes it and its answer is lost: *)
(* the worker cannot tell the last two apart.                                 *)
PostLands ==
    /\ posting.at = "asked"
    /\ \/ /\ Posted(TRUE) /\ UNCHANGED refused
          /\ posting' = [posting EXCEPT !.at = "landed"]
       \/ /\ Posted(FALSE) /\ Refusal
          /\ posting' = [posting EXCEPT !.at = "failed"]
       \/ /\ Refusal \/ (Len(kitsu) = MaxComments /\ UNCHANGED refused)
          /\ posting' = [posting EXCEPT !.at = "failed"] /\ UNCHANGED kitsu
    /\ UNCHANGED <<drawer, vm, fetching, ticking, summary, seen, badges, delivered, acts>>

(* A success clears the text that is there by then, and loads the thread that *)
(* is current by then.                                                        *)
CommentPosted ==
    /\ posting.at = "landed" /\ posting' = Idle
    /\ drawer' = [drawer EXCEPT !.sending = FALSE, !.text = NoText, !.enabled = TRUE]
    /\ vm' = [Loading(vm, vm.thread) EXCEPT !.list = NoComments] /\ StartFetch(vm.thread)
    /\ UNCHANGED <<kitsu, ticking, summary, seen, badges, delivered, acts, refused>>

PostFailed ==
    /\ posting.at = "failed" /\ posting' = Idle
    /\ drawer' = [drawer EXCEPT !.sending = FALSE, !.loading = FALSE]
    /\ UNCHANGED <<kitsu, vm, fetching, ticking, summary, seen, badges, delivered, acts, refused>>

-----------------------------------------------------------------------------
(* Checklists: a tick is shown at once and taken back when it is refused.     *)

Flipped(ticks, item) == IF item \in ticks THEN ticks \ {item} ELSE ticks \union {item}

(* The box flips in any case; while an update runs, or when the comment is    *)
(* not among the view model's, that is all.                                   *)
ToggleChecklist(i, item) ==
    LET ticks == Flipped(drawer.list[i], item)
        list == [vm.list EXCEPT ![i] = IF item \in ticks THEN @ \union {item} ELSE @ \ {item}]
    IN
    /\ drawer.thread # NoThread /\ drawer.enabled /\ i \in DOMAIN drawer.list /\ Act
    /\ \/ /\ ticking.at # "idle" \/ i \notin DOMAIN vm.list
          /\ drawer' = [drawer EXCEPT !.list[i] = ticks]
          /\ UNCHANGED <<vm, ticking>>
       \/ /\ ticking.at = "idle" /\ i \in DOMAIN vm.list
          /\ vm' = [vm EXCEPT !.list = list, !.revert = <<i, vm.list[i]>>]
          /\ drawer' = [Showing(drawer, vm.thread, list) EXCEPT !.enabled = FALSE]
          /\ ticking' = [at |-> "asked", id |-> i, ticks |-> list[i]]
    /\ UNCHANGED <<kitsu, fetching, posting, summary, seen, badges, delivered, refused>>

(* The whole checklist is written over the server's, also when the answer is  *)
(* lost.                                                                      *)
UpdateLands ==
    LET ticked == [kitsu EXCEPT ![ticking.id].ticks = ticking.ticks] IN
    /\ ticking.at = "asked"
    /\ \/ kitsu' = ticked /\ ticking' = [ticking EXCEPT !.at = "landed"] /\ UNCHANGED refused
       \/ Refusal /\ ticking' = [ticking EXCEPT !.at = "failed"] /\ kitsu' \in {kitsu, ticked}
    /\ UNCHANGED <<drawer, vm, fetching, posting, summary, seen, badges, delivered, acts>>

(* The answer brings the server's list or puts the old one back, if the       *)
(* comment is still there, and all comments are emitted for the current thread. *)
ChecklistUpdated ==
    LET back == IF ticking.at = "landed" THEN ticking.ticks ELSE vm.revert[2]
        list == IF ticking.id \in DOMAIN vm.list THEN [vm.list EXCEPT ![ticking.id] = back] ELSE vm.list
    IN
    /\ ticking.at \in {"landed", "failed"} /\ ticking' = Idle
    /\ vm' = [vm EXCEPT !.list = list, !.revert = << >>]
    /\ drawer' = [Showing(drawer, vm.thread, list) EXCEPT !.enabled = TRUE]
    /\ UNCHANGED <<kitsu, fetching, posting, summary, seen, badges, delivered, acts, refused>>

-----------------------------------------------------------------------------
(* The counts of all threads; one summary runs at a time. A thread that may   *)
(* not be read counts as empty.                                               *)

RefreshCommentCounts ==
    /\ summary.at = "idle" /\ Act /\ summary' = [at |-> "asked"]
    /\ UNCHANGED <<kitsu, drawer, vm, fetching, posting, ticking, seen, badges, delivered, refused>>

SummaryReads ==
    /\ summary.at = "asked"
    /\ \/ summary' = [at |-> "read", upTo |-> Len(kitsu), of |-> Threads] /\ UNCHANGED refused
       \/ /\ Refusal
          /\ \E some \in SUBSET Threads : summary' = [at |-> "read", upTo |-> Len(kitsu), of |-> some]
    /\ UNCHANGED <<kitsu, drawer, vm, fetching, posting, ticking, seen, badges, delivered, acts>>

Counted(t) == IF t \in summary.of THEN OfThread(t, summary.upTo) ELSE {}

(* A thread that never was observed is taken as seen up to its newest comment. *)
CommentSummary ==
    /\ summary.at = "read" /\ summary' = Idle
    /\ seen' = [t \in Threads |-> IF seen[t] = 0 THEN Newest(Counted(t)) ELSE seen[t]]
    /\ badges' = [t \in Threads |->
            [total |-> Cardinality(Counted(t)),
             unread |-> IF seen[t] = 0 THEN 0 ELSE Cardinality(UnreadAmong(Counted(t), seen[t]))]]
    /\ delivered' = [t \in Threads |-> Newest((Counted(t) \union {delivered[t]}) \ {0})]
    /\ UNCHANGED <<kitsu, drawer, vm, fetching, posting, ticking, acts, refused>>

-----------------------------------------------------------------------------
(* The others comment and tick, too.                                          *)

OthersComment(t) ==
    /\ Len(kitsu) < MaxComments
    /\ kitsu' = Append(kitsu, [of |-> t, mine |-> FALSE, ticks |-> {}, text |-> NoText,
                               answered |-> FALSE])
    /\ UNCHANGED <<drawer, vm, fetching, posting, ticking, summary, seen, badges, delivered, acts, refused>>

OthersTick ==
    /\ Act /\ \E i \in DOMAIN kitsu, item \in Items :
                  kitsu' = [kitsu EXCEPT ![i].ticks = Flipped(@, item)]
    /\ UNCHANGED <<drawer, vm, fetching, posting, ticking, summary, seen, badges, delivered, refused>>

CommentsNext ==
    \/ \E t \in Threads : OpenComments(t) \/ OthersComment(t)
    \/ CloseComments \/ FetchReads \/ CommentsLoaded \/ CommentsDropped \/ CommentsFailed
    \/ Write \/ SendComment \/ PostLands \/ CommentPosted \/ PostFailed
    \/ \E i \in 1..MaxComments, item \in Items : ToggleChecklist(i, item)
    \/ UpdateLands \/ ChecklistUpdated
    \/ RefreshCommentCounts \/ SummaryReads \/ CommentSummary \/ OthersTick

(* Workers that run get on, and their results are handled.                    *)
CommentsFairness ==
    /\ WF_threadVars(FetchReads \/ CommentsLoaded \/ CommentsDropped \/ CommentsFailed)
    /\ WF_threadVars(PostLands \/ CommentPosted \/ PostFailed)

CommentsSpec == CommentsInit /\ [][CommentsNext]_threadVars /\ CommentsFairness
-----------------------------------------------------------------------------
IsList(list) == DOMAIN list \subseteq 1..MaxComments /\ \A i \in DOMAIN list : list[i] \subseteq Items

(* The drawer, the view model and the workers keep their shape, and the open  *)
(* drawer and the view model agree on the thread.                             *)
CommentsTypeOK ==
    /\ \A i \in DOMAIN kitsu : kitsu[i].of \in Threads /\ kitsu[i].ticks \subseteq Items
    /\ drawer.thread \in {NoThread, vm.thread} /\ vm.thread \in Threads \union {NoThread}
    /\ IsList(drawer.list) /\ IsList(vm.list)
    /\ vm.pending # NoThread => fetching.at # "idle" /\ vm.pending = vm.thread
    /\ ticking.at # "idle" => vm.revert # << >> /\ vm.revert[1] = ticking.id
    /\ seen \in [Threads -> 0..MaxComments] /\ delivered \in [Threads -> 0..MaxComments]

(* What is stored as seen was brought to this Hub: a comment of somebody else *)
(* that came later, or was never fetched, is flagged when it is counted.      *)
SeenWasFetched == \A t \in Threads : seen[t] <= delivered[t]

(* A text is posted on the thread it was written for, and not again once Kitsu *)
(* has answered for it: it is there twice only when the earlier answer was    *)
(* lost and its author sent it again.                                         *)
PostedOnceWhereWritten ==
    \A i \in {j \in DOMAIN kitsu : kitsu[j].mine} :
        /\ kitsu[i].text.for = kitsu[i].of
        /\ \A j \in DOMAIN kitsu : kitsu[j].text = kitsu[i].text /\ i < j => ~ kitsu[i].answered

(* What the drawer shows as the thread of a task is the thread of that task.  *)
DrawerShowsItsThread ==
    \A i \in DOMAIN drawer.list : kitsu[i].of = drawer.as

(* An opened drawer gets its comments or an error, and "Sending" ends.        *)
DrawerAnswers ==
    /\ drawer.loading ~> ~drawer.loading
    /\ drawer.sending ~> ~drawer.sending
=============================================================================
