--------------------------- MODULE SelectionCapture ---------------------------
(***************************************************************************)
(* Reading the selection of the foreground application: the clipboard is   *)
(* put aside, a copy key is pressed, the clipboard's change count is       *)
(* watched for three seconds, the text is read and the clipboard restored. *)
(* The other application copies when it gets to it, in one or two steps,   *)
(* or never; anyone may write to the clipboard at any time.                *)
(*                                                                         *)
(* One extraction runs at a time: its future blocks the thread it is       *)
(* polled on.  What the clipboard holds is a kind and the change that put  *)
(* it there; only texts and images can be put aside, the rest (files, say) *)
(* is "other".                                                             *)
(***************************************************************************)
EXTENDS Naturals

CONSTANTS
    MaxRuns, MaxWrites   \* bounds on extractions and on writes by others

Kinds == {"empty", "text", "image", "other"}
Content == [kind : Kinds, by : {"user", "app", "none"}]
Empty == [kind |-> "empty", by |-> "none"]
Nothing == [kind |-> "nothing", by |-> "none"]   \* no contents were put aside
Selected == [kind |-> "text", by |-> "app"]

VARIABLES
    clipboard, count,
    app,        \* what the foreground application does with the key
    step, aside, since, result,
    warned,     \* a warning was made; it goes out with a text only
    original,   \* the clipboard when the extraction began
    calm,       \* nobody else wrote and the copy was over before the restore
    runs, writes,
    machine     \* "macos" or "windows"

vars == <<clipboard, count, app, step, aside, since, result, warned,
          original, calm, runs, writes, machine>>

Init ==
    /\ clipboard \in [kind : Kinds \ {"empty"}, by : {"user"}] \cup {Empty}
    /\ count = 0 /\ app = "idle"
    /\ step = "idle" /\ aside = Nothing /\ since = 0
    /\ result = "none" /\ warned = FALSE
    /\ original = clipboard /\ calm = TRUE
    /\ runs = 0 /\ writes = 0
    /\ machine \in {"macos", "windows"}

-----------------------------------------------------------------------------
(* extract_from_screen_selection                                           *)

Begin ==
    /\ step \in {"idle", "over"}
    /\ runs < MaxRuns
    /\ runs' = runs + 1
    /\ result' = "none" /\ warned' = FALSE /\ aside' = Nothing
    /\ original' = clipboard
    /\ calm' = (app = "idle")   \* no late copy of an earlier run
    /\ \/ step' = "contents"
       \/ machine = "macos" /\ step' = "over"   \* accessibility denied
    /\ UNCHANGED <<clipboard, count, app, since, writes, machine>>

\* snapshot_clipboard_contents: a text, else an image, else nothing to restore
\* but a cleared clipboard.  A text or image that cannot be got passes for none,
\* without a warning; a warning is made of a clipboard that cannot be opened.
PutAside ==
    /\ step = "contents"
    /\ \/ /\ aside' \in IF clipboard.kind = "other" THEN {Empty} ELSE {clipboard, Empty}
          /\ UNCHANGED warned
       \/ aside' = Nothing /\ warned' = TRUE
    /\ step' = "count"
    /\ UNCHANGED <<clipboard, count, app, since, result, original, calm, runs, writes, machine>>

\* clipboard_snapshot
TakeCount ==
    /\ step = "count"
    /\ since' = count
    /\ step' = "press"
    /\ UNCHANGED <<clipboard, count, app, aside, result, warned, original, calm, runs, writes, machine>>

\* simulate_copy_key_press.  On macOS one of its two events may not be made,
\* the first or, when the key is down already, the second.
Press ==
    /\ step = "press"
    /\ \/ app' = "asked" /\ step' = "poll" /\ UNCHANGED result
       \/ app' \in {app, "asked"} /\ machine = "macos" /\ step' = "over" /\ result' = "error"
    /\ UNCHANGED <<clipboard, count, aside, since, warned, original, calm, runs, writes, machine>>

\* read_clipboard_text
Read(text) == IF text.kind = "text" THEN text.by ELSE "none"

Changed == count # since

\* Mutant: the time being up, the clipboard is read as it is.
TimeUpReads ==
    /\ step = "poll" /\ ~Changed
    /\ result' = Read(clipboard)
    /\ step' = "restore"
    /\ UNCHANGED <<clipboard, count, app, aside, since, warned, original, calm, runs, writes, machine>>

\* On Windows the clipboard may not open, or its data not lock: an error, after
\* which the clipboard is restored all the same.
PollReads ==
    /\ step = "poll" /\ Changed
    /\ \/ result' = Read(clipboard)
       \/ machine = "windows" /\ result' = "failed"
    /\ step' = "restore"
    /\ UNCHANGED <<clipboard, count, app, aside, since, warned, original, calm, runs, writes, machine>>

TimeUp ==
    /\ step = "poll" /\ ~Changed
    /\ step' = "restore"
    /\ UNCHANGED <<clipboard, count, app, aside, since, result, warned, original, calm, runs, writes, machine>>

\* Mutant: without a text there is nothing to restore for.
RestoreRead ==
    /\ step = "restore"
    /\ IF aside = Nothing \/ result = "none"
       THEN UNCHANGED <<clipboard, count, warned>>
       ELSE \/ clipboard' = aside /\ count' = count + 1 /\ UNCHANGED warned
            \/ warned' = TRUE /\ clipboard' \in {clipboard, Empty} /\ count' \in {count, count + 1}
    /\ calm' = (calm /\ app = "idle")
    /\ step' = "over"
    /\ UNCHANGED <<app, aside, since, result, original, runs, writes, machine>>

\* restore_clipboard_contents: the text, the image, or a cleared clipboard.  One
\* that fails may have cleared it already.
Restore ==
    /\ step = "restore"
    /\ IF aside = Nothing
       THEN UNCHANGED <<clipboard, count, warned>>
       ELSE \/ clipboard' = aside /\ count' = count + 1 /\ UNCHANGED warned
            \/ warned' = TRUE /\ clipboard' \in {clipboard, Empty} /\ count' \in {count, count + 1}
    /\ calm' = (calm /\ app = "idle")
    /\ step' = "over"
    /\ UNCHANGED <<app, aside, since, result, original, runs, writes, machine>>

-----------------------------------------------------------------------------
(* The foreground application and everyone else.                           *)

Copies ==
    /\ \/ /\ app = "asked" /\ app' = "idle"      \* at once
          /\ clipboard' = Selected /\ count' = count + 1
       \/ /\ app = "asked" /\ app' = "cleared"   \* cleared first ...
          /\ clipboard' = Empty /\ count' = count + 1
       \/ /\ app = "cleared" /\ app' = "idle"    \* ... then filled
          /\ clipboard' = Selected
          /\ count' \in {count, count + 1}
       \/ /\ app = "asked" /\ app' = "idle"      \* nothing is selected
          /\ UNCHANGED <<clipboard, count>>
    /\ UNCHANGED <<step, aside, since, result, warned, original, calm, runs, writes, machine>>

OthersWrite ==
    /\ writes < MaxWrites
    /\ writes' = writes + 1
    /\ clipboard' \in [kind : {"text", "other"}, by : {"user"}]
    /\ count' = count + 1
    /\ calm' = FALSE
    /\ UNCHANGED <<app, step, aside, since, result, warned, original, runs, machine>>

Next ==
    \/ Begin \/ PutAside \/ TakeCount \/ Press
    \/ PollReads \/ TimeUp \/ Restore
    \/ Copies \/ OthersWrite

Spec == Init /\ [][Next]_vars

-----------------------------------------------------------------------------
TypeOK ==
    /\ clipboard \in Content /\ original \in Content
    /\ aside \in Content \cup {Nothing}
    /\ since \in 0 .. count
    /\ app \in {"idle", "asked", "cleared"}
    /\ step \in {"idle", "contents", "count", "press", "poll", "restore", "over"}
    /\ result \in {"none", "user", "app", "error", "failed"} /\ warned \in BOOLEAN /\ calm \in BOOLEAN
    /\ runs \in 0 .. MaxRuns /\ writes \in 0 .. MaxWrites
    /\ machine \in {"macos", "windows"}

\* While nobody else writes, what is read is the selection and never what the
\* clipboard held before; and after an extraction without warning, whose copy
\* did not come late, the clipboard holds what it held, or was cleared because
\* that could not be put aside: never the selection, nor what an earlier
\* extraction put aside.  The key that could not be pressed is the one error
\* that leaves the clipboard as it is.
SelectionBack ==
    /\ calm => result # "user"
    /\ step = "over" /\ calm /\ ~warned /\ result # "error"
          => \/ clipboard = original
             \/ clipboard = Empty /\ aside = Empty

\* runtime/platform_api.rs:106: "The clipboard is restored before this
\* future completes."
ClipboardRestored ==
    step = "over" /\ calm /\ ~warned /\ result # "error" => clipboard = original
=============================================================================
