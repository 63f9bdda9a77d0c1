-------------------------- MODULE NewsTranslation --------------------------
(***************************************************************************)
(* The Chinese titles and texts of foreign news articles                   *)
(* (app/services/news/translation_service.py, scheduler_translate_news.py, *)
(* and the translate endpoint of app/api/v1/news.py).                      *)
(*                                                                         *)
(* Three passes may be at work on a row at the same time, each with a      *)
(* database session of its own: the ten-minute drain, the pass that        *)
(* follows the ingestion of the row, and a reader who asks for it.  A pass *)
(* reads the row, calls the model for the title, then for the text, each   *)
(* call up to four minutes long, and writes what it made of the text it    *)
(* read.  Meanwhile the full text may arrive (content_fetcher.py).         *)
(*                                                                         *)
(* A greater number is a newer article.                                    *)
(***************************************************************************)
EXTENDS Naturals, FiniteSets

CONSTANTS
    Articles,    \* articles in a foreign language
    Teased,      \* those the feed gave an excerpt of
    New,         \* those whose ingestion is still under way
    Sensitive,   \* those whose text the model refuses, whoever asks
    Batch,       \* news_translation_batch_size
    Cap,         \* _MAX_TRANSLATION_ATTEMPTS
    Width        \* bound: passes at work beside the drain

ASSUME ArticlesAssumption == Articles \subseteq Nat /\ IsFiniteSet(Articles) /\ 0 \notin Articles
ASSUME CapAssumption      == Batch \in Nat \ {0} /\ Cap \in Nat \ {0}
ASSUME KindsAssumption    == Teased \cup New \cup Sensitive \subseteq Articles

VARIABLES
    title,       \* title_zh is there
    text,        \* what there is to translate: nothing, the feed's excerpt, the full text
    zh,          \* which of these translated_zh was made from
    stale,       \* full_content_fetched_at > translation_generated_at
    important,   \* importance is stamped and at the gate or above it
    att,         \* translation_attempts
    fresh,       \* new rows the ingestion has not passed on yet
    queue,       \* rows the drain has selected and not started
    pass,        \* what each pass is doing
    outdated     \* rows translated from less than they held by then

rows == <<title, text, zh, stale, important, att>>
vars == <<title, text, zh, stale, important, att, fresh, queue, pass, outdated>>

Passes == {"drain", "ingest", "reader"}
Texts  == {"none", "excerpt", "full"}

NoArticle == 0

Idle == [art |-> NoArticle, step |-> "idle", src |-> "none", seen |-> 0,
         force |-> FALSE, due |-> FALSE, ok |-> FALSE, blocked |-> FALSE]

NewsTypeOK ==
    /\ title \in [Articles -> BOOLEAN]
    /\ text \in [Articles -> Texts]
    /\ zh \in [Articles -> Texts]
    /\ stale \in [Articles -> BOOLEAN]
    /\ important \in [Articles -> BOOLEAN]
    /\ att \in [Articles -> 0..Cap + 1]
    /\ fresh \in SUBSET Articles
    /\ queue \in SUBSET Articles
    /\ pass \in [Passes -> [art: Articles \cup {NoArticle},
                            step: {"idle", "title", "again", "body", "end"},
                            src: Texts, seen: 0..Cap + 1, force: BOOLEAN, due: BOOLEAN,
                            ok: BOOLEAN, blocked: BOOLEAN]]
    /\ outdated \in SUBSET Articles

-----------------------------------------------------------------------------
NewsInit ==
    /\ title = [a \in Articles |-> FALSE]
    /\ text = [a \in Articles |-> IF a \in Teased THEN "excerpt" ELSE "none"]
    /\ zh = [a \in Articles |-> "none"]
    /\ stale = [a \in Articles |-> FALSE]
    /\ important = [a \in Articles |-> FALSE]
    /\ att = [a \in Articles |-> 0]
    /\ fresh = New
    /\ queue = {}
    /\ pass = [p \in Passes |-> Idle]
    /\ outdated = {}

\* The text of a is worth a call: it passes the importance gate and has no
\* translation, or one that is stale.
BodyNeeded(a) ==
    /\ text[a] # "none"
    /\ important[a]
    /\ zh[a] = "none" \/ stale[a]

\* Mutants of Pending: a row is tried once too often; rows without text take
\* up the window; stale translations are forgotten.
PendingOnceMore == {a \in Articles : att[a] <= Cap /\ (~title[a] \/ BodyNeeded(a))}

PendingNoText ==
    {a \in Articles : att[a] < Cap /\ (~title[a] \/ (important[a] /\ (zh[a] = "none" \/ stale[a])))}

PendingNoStale ==
    {a \in Articles : att[a] < Cap /\ (~title[a] \/ (BodyNeeded(a) /\ zh[a] = "none"))}

\* The rows the drain may select, and those it does.
Pending == {a \in Articles : att[a] < Cap /\ (~title[a] \/ BodyNeeded(a))}

Window == {a \in Pending : Cardinality({b \in Pending : b > a}) < Batch}

-----------------------------------------------------------------------------
(* What happens to rows from outside.                                      *)

\* Mutant of Fetch: the time of the full text is not written.
FetchUntimed(a) ==
    /\ text[a] # "full"
    /\ text' = [text EXCEPT ![a] = "full"]
    /\ UNCHANGED <<title, zh, stale, important, att, fresh, queue, pass, outdated>>

\* The full text arrives; content_fetcher stamps the time.
Fetch(a) ==
    /\ text[a] # "full"
    /\ text' = [text EXCEPT ![a] = "full"]
    /\ stale' = [stale EXCEPT ![a] = zh[a] # "none"]
    /\ UNCHANGED <<title, zh, important, att, fresh, queue, pass, outdated>>

\* The sentiment pipeline rates a row at the gate or above it.
Stamp(a) ==
    /\ ~important[a]
    /\ important' = [important EXCEPT ![a] = TRUE]
    /\ UNCHANGED <<title, text, zh, stale, att, fresh, queue, pass, outdated>>

-----------------------------------------------------------------------------
(* Passes.  "due" says that the text is to be translated, as far as the    *)
(* session knows, "src" and "seen" which text and attempts it has read.    *)

\* A tick of the drain selects a batch; ticks do not overlap.
Tick ==
    /\ queue = {} /\ pass["drain"] = Idle
    /\ Window # {}
    /\ queue' = Window
    /\ UNCHANGED <<rows, fresh, pass, outdated>>

Room == Cardinality({p \in Passes \ {"drain"} : pass[p] # Idle}) < Width

\* auto_translate reads row a, and returns when there is nothing to do.
Begin(p, a) ==
    /\ pass[p] = Idle
    /\ pass' = [pass EXCEPT ![p] =
                  IF title[a] /\ ~BodyNeeded(a) THEN Idle
                  ELSE [art |-> a, step |-> IF title[a] THEN "body" ELSE "title",
                        src |-> text[a], seen |-> att[a], force |-> stale[a], due |-> BodyNeeded(a),
                        ok |-> FALSE, blocked |-> FALSE]]

DrainBegins(a) ==
    /\ a \in queue
    /\ Begin("drain", a)
    /\ queue' = queue \ {a}
    /\ UNCHANGED <<rows, fresh, outdated>>

IngestBegins(a) ==
    /\ a \in fresh /\ Room
    /\ Begin("ingest", a)
    /\ fresh' = fresh \ {a}
    /\ UNCHANGED <<rows, queue, outdated>>

\* The endpoint calls translate itself: a translation that is there is the
\* answer, neither importance nor attempts count, and the title comes along.
ReaderBegins(a) ==
    LET due == zh[a] = "none"
    IN  /\ pass["reader"] = Idle /\ Room
        /\ ~title[a] \/ (due /\ text[a] # "none")
        /\ pass' = [pass EXCEPT !["reader"] =
                      [Idle EXCEPT !.art = a, !.step = IF title[a] THEN "body" ELSE "again",
                                   !.src = text[a], !.due = due]]
        /\ UNCHANGED <<rows, fresh, queue, outdated>>

\* The session has expired its copy of the row, by a commit or a rollback,
\* and reads it again.
Reread(q) ==
    [q EXCEPT !.src = text[q.art], !.seen = att[q.art],
              !.due = @ /\ (q.force \/ zh[q.art] = "none")]

\* The outcomes of a call of the model: a usable answer, none, a refusal.
Calls(a) == {"done", "fails"} \cup (IF a \in Sensitive THEN {"blocked"} ELSE {})

\* Only the passes of auto_translate keep an account of attempts.
Leave(p, q) == [pass EXCEPT ![p] = IF p = "reader" /\ q.step = "end" THEN Idle ELSE q]

\* translate_title_if_needed: called by auto_translate first ("title"), and
\* by translate for a title that is still missing ("again").
TitleCall(p) ==
    /\ pass[p].step \in {"title", "again"}
    /\ \E c \in Calls(pass[p].art) :
         LET q     == IF c = "fails" THEN pass[p] ELSE Reread(pass[p])
             first == q.step = "title"
         IN  /\ title' = [title EXCEPT ![q.art] = @ \/ c = "done"]
             /\ pass' = Leave(p,
                    [q EXCEPT !.step    = IF ~q.due \/ q.src = "none" THEN "end"
                                          ELSE IF first /\ c # "done" THEN "again" ELSE "body",
                              !.ok      = IF first THEN c = "done" ELSE @ \/ ~q.due,
                              !.blocked = @ \/ (first /\ c = "blocked")])
    /\ UNCHANGED <<text, zh, stale, important, att, fresh, queue, outdated>>

\* The text: translated_zh is what became of the text the session had read,
\* and its time is now.  After the commit, as after the rollback of a failure,
\* the row is read again.
BodyDone(p) ==
    LET q == pass[p]
        a == q.art
    IN  /\ q.step = "body" /\ a \notin Sensitive
        /\ zh' = [zh EXCEPT ![a] = q.src]
        /\ stale' = [stale EXCEPT ![a] = FALSE]
        /\ outdated' = IF q.src = text[a] THEN outdated \ {a} ELSE outdated \cup {a}
        /\ pass' = Leave(p, [q EXCEPT !.step = "end", !.ok = TRUE, !.seen = att[a]])
        /\ UNCHANGED <<title, text, important, att, fresh, queue>>

BodyFails(p) ==
    LET q == pass[p]
    IN  /\ q.step = "body"
        /\ \E c \in Calls(q.art) \ {"done"} :
             pass' = Leave(p, [q EXCEPT !.step = "end", !.blocked = @ \/ c = "blocked",
                                        !.seen = att[q.art]])
        /\ UNCHANGED <<rows, fresh, queue, outdated>>

\* _record_attempt_outcome: from the attempts the session has read, which the
\* other pass may have changed since.  A reset of zero attempts writes nothing.
Record(p) ==
    LET q == pass[p]
        a == q.art
    IN  /\ p # "reader" /\ q.step = "end"
        /\ att' = [att EXCEPT ![a] = IF q.ok THEN IF q.seen = 0 THEN @ ELSE 0
                                    ELSE IF q.blocked THEN Cap ELSE q.seen + 1]
        /\ pass' = [pass EXCEPT ![p] = Idle]
        /\ UNCHANGED <<title, text, zh, stale, important, fresh, queue, outdated>>

\* The process restarts: its passes, and the rows it was to pass on, are gone.
Restart ==
    /\ \E p \in Passes : pass[p] # Idle
    /\ pass' = [p \in Passes |-> Idle]
    /\ queue' = {} /\ fresh' = {}
    /\ UNCHANGED <<rows, outdated>>

-----------------------------------------------------------------------------
PassStep(p) == TitleCall(p) \/ BodyDone(p) \/ BodyFails(p) \/ Record(p)

DrainStep == Tick \/ (\E a \in Articles : DrainBegins(a)) \/ PassStep("drain")

NewsNext ==
    \/ \E a \in Articles : Fetch(a) \/ Stamp(a) \/ IngestBegins(a) \/ ReaderBegins(a)
    \/ DrainStep
    \/ \E p \in Passes \ {"drain"} : PassStep(p)
    \/ Restart

\* APScheduler runs the drain every ten minutes, and a call ends by its
\* timeout.  Nothing is owed to readers or to the ingestion.
NewsSpec == NewsInit /\ [][NewsNext]_vars /\ WF_vars(DrainStep)

-----------------------------------------------------------------------------
(* Properties.                                                             *)

\* A translation of the excerpt of an article whose full text is there is
\* seen to be stale, so that the drain makes it again, unless the full text
\* came between the reading of the row and the writing of the translation.
StaleIsSeen ==
    \A a \in Articles : zh[a] = "excerpt" /\ text[a] = "full" => stale[a] \/ a \in outdated

\* No row stays in the drain's window for good and keeps older rows out of
\* it: each leaves again and again, translated, given up or without text,
\* as long as the process does not keep restarting.
BacklogDrains ==
    <>[][~Restart]_vars => \A a \in Articles : []<>(a \notin Pending)

\* From some point on the calls for ordinary articles succeed.
Failure ==
    \/ Restart
    \/ \E p \in Passes : /\ pass[p].art \notin Sensitive
                         /\ BodyFails(p) \/ (TitleCall(p) /\ UNCHANGED title)

\* The title is there, and the text if it matters: made from the best there is.
InChinese(a) == title[a] /\ (text[a] # "none" /\ important[a] => zh[a] = text[a])

\* A translated excerpt stands for the full text, for good: the full text came
\* while the excerpt was being translated, so the time of the translation is
\* the later one and nothing looks stale.
TeaserForGood(a) == title[a] /\ zh[a] = "excerpt" /\ text[a] = "full" /\ a \in outdated

\* Once failures stop, each ordinary article is in the end translated from the
\* best text it has, with two exceptions.  Its attempts may be used up: nothing
\* resets them.  And an excerpt overtaken by its full text during the call is
\* never redone, though translation_is_stale is to see that it is ("full-body
\* Chinese, not a translated teaser").
ArrivesInFull ==
    <>[][~Failure]_vars =>
        \A a \in Articles \ Sensitive : <>[](att[a] >= Cap \/ InChinese(a) \/ TeaserForGood(a))
=============================================================================
