---------------------------- MODULE ModelAnswers ----------------------------
(***************************************************************************)
(* What becomes of the answer of a language model.  A caller sends a batch *)
(* of chat messages; the model names messages and people, which may not be *)
(* in the batch, may come twice and may carry blanks.  The service keeps   *)
(* of the answer what the batch supports and falls back to the batch       *)
(* itself, and makes a matter with assignees of it (extract) or a timeline *)
(* entry with files (progress).                                            *)
(*                                                                         *)
(* Strings are members of a set on which Trim removes blanks at the ends.  *)
(* A deadline is a day, or None for everything that is no date.            *)
(***************************************************************************)
EXTENDS Integers, Sequences, SequencesExt

CONSTANTS
    Message,        \* records: id, from, files
    Answer,         \* records: sources, people, deadline
    Str, Trim,      \* strings, and strings.TrimSpace on them
    Blank,          \* the empty string
    Creator,
    Today,          \* days in the caller's zone when a prompt is made
    YearLength,     \* days of a year
    Lookback, Lookahead,    \* deadlineYearLookback, deadlineYearLookahead: 1, 5
    MaxMessages,    \* ExtractMaxMessages: 200
    MaxFiles,       \* MaxAttachmentsPerEntry: 10
    None

ASSUME ModelAnswersAssumption ==
    /\ Trim \in [Str -> Str] /\ Blank \in Str /\ Trim[Blank] = Blank
    /\ \A s \in Str : Trim[Trim[s]] = Trim[s]
    /\ Creator \in Str /\ Trim[Creator] # Blank
    /\ Today \subseteq Nat /\ YearLength \in Nat \ {0}
    /\ Lookback \in Nat \ {0} /\ Lookahead \in Nat \ {0}
    /\ MaxMessages \in Nat \ {0} /\ MaxFiles \in Nat \ {0}
    /\ \A m \in Message : m.id \in Str /\ m.from \in Str /\ m.files \in Seq(Str)
    /\ \A a \in Answer : a.sources \in Seq(Str) /\ a.people \in Seq(Str)
                         /\ a.deadline \in Nat \cup {None}

VARIABLES
    step,
    batch,
    today,          \* the day that the prompt names
    answer,         \* the model's, None before
    extracted,      \* what extract stored, None before
    entry,          \* what progress stored, None before
    verdict

answerVars == <<step, batch, today, answer, extracted, entry, verdict>>

Ids     == [i \in DOMAIN batch |-> batch[i].id]
Senders == [i \in DOMAIN batch |-> batch[i].from]

\* What of s is in the set, in order, what comes twice once.
Keep(list, x, set) == IF x \in set \ ToSet(list) THEN Append(list, x) ELSE list

Kept(s, set) ==
    LET kept[i \in 0..Len(s)] == IF i = 0 THEN <<>> ELSE Keep(kept[i - 1], s[i], set)
    IN  kept

Distinct(s, set) == Kept(s, set)[Len(s)]

\* The blank string names nobody.
Present(s) == ToSet(s) \ {Blank}

Cited == Distinct(answer.sources, ToSet(Ids))

\* Mutant: nothing stands in for sources that the batch does not have.
CitedOnly == Cited

SourceMsgs == IF Cited = <<>> THEN Ids ELSE Cited

Named == [i \in DOMAIN answer.people |-> Trim[answer.people[i]]]

\* Mutant: anybody the model names.
Anybody == LET named == Distinct(Named, Present(Named))
           IN  IF named = <<>> THEN <<Creator>> ELSE named

Assignees ==
    LET named == Distinct(Named, Present(Senders) \cup {Creator})
    IN  IF named = <<>> THEN <<Creator>> ELSE named

RelatedUIDs ==
    LET named == Distinct(Named, Present(Senders))
    IN  IF named = <<>> THEN Distinct(Senders, Present(Senders)) ELSE named

\* Mutant: the messages that stand in for missing citations carry their files.
CarriesFilesOf(m) == m.id \in ToSet(SourceMsgs)

CarriesFiles(m) == m.id \in ToSet(Cited)

\* The files of the cited messages, each with its first sender, up to the cap.
Add(rows, name, sender) ==
    LET file == Trim[name]
    IN  IF Len(rows) >= MaxFiles \/ file = Blank \/ \E k \in DOMAIN rows : rows[k].file = file
        THEN rows ELSE Append(rows, [file |-> file, from |-> sender])

AddFiles(rows, m) ==
    LET added[j \in 0..Len(m.files)] ==
          IF j = 0 THEN rows ELSE Add(added[j - 1], m.files[j], m.from)
    IN  added

Collected ==
    LET rows[i \in 0..Len(batch)] ==
          IF i = 0 THEN <<>>
          ELSE IF CarriesFiles(batch[i]) THEN AddFiles(rows[i - 1], batch[i])[Len(batch[i].files)]
          ELSE rows[i - 1]
    IN  rows

Attachments == Collected[Len(batch)]

Year(day) == day \div YearLength

\* Mutant: the first year of the window is left out.
LaterYear == IF answer.deadline # None
                /\ Year(answer.deadline) \in Year(today) - Lookback + 1 .. Year(today) + Lookahead
             THEN answer.deadline ELSE None

\* A year far from the prompt's is taken for an invention of the model.
Deadline ==
    IF answer.deadline # None
       /\ Year(answer.deadline) \in Year(today) - Lookback .. Year(today) + Lookahead
    THEN answer.deadline ELSE None
-----------------------------------------------------------------------------
\* validateMessages.
Accept(b) ==
    /\ step = "idle"
    /\ batch' = b /\ today' \in Today
    /\ IF Len(b) \in 1..MaxMessages
       THEN step' = "ask" /\ UNCHANGED verdict
       ELSE step' = "done" /\ verdict' = "invalid"
    /\ UNCHANGED <<answer, extracted, entry>>

\* No answer, no arguments in it, or no title and no text.
ModelFails ==
    /\ step = "ask"
    /\ step' = "done" /\ verdict' = "failed"
    /\ UNCHANGED <<batch, today, answer, extracted, entry>>

Reply(a) ==
    /\ step = "ask"
    /\ step' = "use"
    /\ answer' = a
    /\ UNCHANGED <<batch, today, extracted, entry, verdict>>

\* A matter and its assignees, whose table has one row for a matter and a user.
Extract ==
    /\ step = "use"
    /\ step' = "done"
    /\ IF IsInjective(Assignees)
       THEN /\ extracted' = [sources |-> SourceMsgs, assignees |-> Assignees,
                             deadline |-> Deadline]
            /\ verdict' = "stored"
       ELSE verdict' = "conflict" /\ UNCHANGED extracted
    /\ UNCHANGED <<batch, today, answer, entry>>

\* An entry, and the files that the matter does not have yet.
Progress ==
    /\ step = "use"
    /\ step' = "done"
    /\ entry' = [sources |-> SourceMsgs, related |-> RelatedUIDs, files |-> Attachments]
    /\ verdict' = "stored"
    /\ UNCHANGED <<batch, today, answer, extracted>>
-----------------------------------------------------------------------------
AnswersInit ==
    /\ step = "idle" /\ verdict = "none"
    /\ batch = <<>> /\ today = 0
    /\ answer = None /\ extracted = None /\ entry = None

AnswersNext ==
    \/ \E b \in BoundedSeq(Message, MaxMessages + 1) : Accept(b)
    \/ ModelFails
    \/ \E a \in Answer : Reply(a)
    \/ Extract \/ Progress

AnswersSpec == AnswersInit /\ [][AnswersNext]_answerVars
-----------------------------------------------------------------------------
\* The reference: t has the elements of s that are in the set, in the order in
\* which they come first.
IsSelection(t, s, set) ==
    LET First(x) == CHOOSE i \in DOMAIN s : s[i] = x /\ \A j \in 1..(i - 1) : s[j] # x
    IN  /\ ToSet(t) = ToSet(s) \cap set
        /\ \A i, j \in DOMAIN t : i < j => First(t[i]) < First(t[j])

\* What is stored as sources are messages of the batch: those the model named, in
\* its order and once each, or all when it named none of them; there is always one.
SourcesAreReal ==
    \A stored \in {extracted, entry} \ {None} :
        /\ stored.sources # <<>>
        /\ \/ IsSelection(stored.sources, answer.sources, ToSet(Ids))
           \/ ToSet(answer.sources) \cap ToSet(Ids) = {} /\ stored.sources = Ids

\* The model makes nobody an assignee or a related person who did not write in the
\* batch, the creator aside, and no such person it named is left out; nobody is
\* assigned twice, or the creation would fail on the key of the table.
PeopleAreReal ==
    LET senders == ToSet(Senders) \ {Blank}
        people  == senders \cup {Creator}
    IN  /\ verdict # "conflict"
        /\ extracted # None =>
             \/ IsSelection(extracted.assignees, Named, people)
             \/ ToSet(Named) \cap people = {} /\ extracted.assignees = <<Creator>>
        /\ entry # None =>
             \/ IsSelection(entry.related, Named, senders)
             \/ ToSet(Named) \cap senders = {} /\ IsSelection(entry.related, Senders, senders)

\* Whatever the day of the prompt, a deadline that the model names at most a year
\* away is kept, and one that is kept is no further away than the window is wide.
DeadlinesAreNear ==
    extracted # None /\ answer.deadline # None =>
        LET day == answer.deadline
        IN  /\ day \in today - YearLength .. today + YearLength => extracted.deadline = day
            /\ extracted.deadline # None =>
                 /\ extracted.deadline > today - (Lookback + 1) * YearLength
                 /\ extracted.deadline < today + (Lookahead + 1) * YearLength

\* A file is stored only for a message the model cited itself, never for one that
\* stands in; once, with the first of these messages, and none is left out below
\* the cap.
FilesAreCited ==
    entry # None =>
        LET cited == {i \in DOMAIN batch : batch[i].id \in ToSet(answer.sources)}
            Has(i, f) == \E j \in DOMAIN batch[i].files : Trim[batch[i].files[j]] = f
            known == {f \in Str \ {Blank} : \E i \in cited : Has(i, f)}
            rows == entry.files
        IN  /\ \A k \in DOMAIN rows :
                 /\ rows[k].file \in known
                 /\ \E i \in cited :
                      /\ Has(i, rows[k].file) /\ batch[i].from = rows[k].from
                      /\ \A h \in cited : Has(h, rows[k].file) => i <= h
            /\ \A k, l \in DOMAIN rows : rows[k].file = rows[l].file => k = l
            /\ Len(rows) <= MaxFiles
            /\ Len(rows) < MaxFiles => {rows[k].file : k \in DOMAIN rows} = known
=============================================================================
