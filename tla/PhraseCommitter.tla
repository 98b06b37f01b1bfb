--------------------------- MODULE PhraseCommitter ---------------------------
(***************************************************************************)
(* runtime/inference/pipeline/phrase_committer.py: which part of a growing *)
(* ASR hypothesis is handed to translation, and when.                      *)
(*                                                                         *)
(* The committer never suspends, so it is operators on its state: a        *)
(* function from the open utterances (self._utterances) to their           *)
(* _UtteranceState.  A text is the sequence of its characters, where a     *)
(* word is one character: a positive number, the word's place in what was  *)
(* said.  Spaces and full stops are characters of their own because        *)
(* uncommitted_text and mark_committed count them.                         *)
(*                                                                         *)
(* Clock readings are abstracted to whether a time limit has run out       *)
(* ("due"): it can have only for an instant recorded by an earlier call.   *)
(* on_endpoint_detected is left out: pipelines call it only for ASR        *)
(* adapters without endpoint(), and no adapter in use is one.  So is the   *)
(* context window, which phrases carry but which decides nothing.          *)
(***************************************************************************)
EXTENDS Integers, Sequences, FiniteSets, SequencesExt

CONSTANTS
    StableWordCount,    \* PhraseCommitterConfig.stable_revision_word_count
    StableRevisions     \* PhraseCommitterConfig.stable_revision_count

ASSUME CommitterAssumption ==
    /\ StableWordCount \in Nat \ {0}
    /\ StableRevisions \in Nat \ {0}

Space == 0
FullStop == -1

\* The n-th of some places.
Nth(places, n) == CHOOSE i \in places : Cardinality({j \in places : j <= i}) = n

\* The words of a text, without spaces and marks.
Words(text) ==
    LET at == {i \in DOMAIN text : text[i] > 0}
    IN  [n \in 1 .. Cardinality(at) |-> text[Nth(at, n)]]

\* str.strip: a text from its first to its last character that is no space.
Strip(text) ==
    LET ink == {i \in DOMAIN text : text[i] # Space}
    IN  IF ink = {} THEN <<>> ELSE SubSeq(text, Min(ink), Max(ink))

\* str.find(part, start) for a part that occurs; counted from 1.
Occurrences(text, part, start) ==
    {i \in start + 1 .. Len(text) - Len(part) + 1 :
        SubSeq(text, i, i + Len(part) - 1) = part}

\* The first n words of a text that has n of them, else the empty text
\* (update: " ".join(words[:n]) if len(words) >= n else "").
WordPrefix(text, n) ==
    LET ends == {i \in DOMAIN text :
                    text[i] # Space /\ (i = Len(text) \/ text[i + 1] = Space)}
        nth  == {i \in ends : Cardinality({j \in ends : j <= i}) = n}
    IN  IF nth = {} THEN <<>> ELSE SubSeq(text, 1, Max(nth))

-----------------------------------------------------------------------------
(* _UtteranceState                                                          *)

\* What __init__ sets up.  unsent and stable say whether uncommitted_since_ms
\* and stable_prefix_since_ms hold an instant.
FreshUtterance ==
    [prefix |-> <<>>, text |-> <<>>, wordPrefix |-> <<>>,
     unsent |-> FALSE, stable |-> FALSE, revisions |-> 0]

\* The text after the committed prefix.  A hypothesis that agrees with the
\* prefix on less than four fifths of its length is taken as a new text.
UncommittedText(u) ==
    LET common == Max({n \in 0 .. Len(u.prefix) :
                        IsPrefix(SubSeq(u.prefix, 1, n), u.text)})
    IN  IF common >= (4 * Len(u.prefix)) \div 5
        THEN SubSeq(u.text, Len(u.prefix) + 1, Len(u.text))
        ELSE u.text

\* update: a new hypothesis replaces the text; the run of revisions with the
\* same first words goes on or starts again.  The count is not followed beyond
\* the value that makes it matter.
Update(u, hypothesis) ==
    LET text  == Strip(hypothesis)
        first == WordPrefix(text, StableWordCount)
        same  == first # <<>> /\ first = u.wordPrefix
    IN  [u EXCEPT
            !.text = text,
            !.unsent = @ \/ text # <<>>,
            !.wordPrefix = first,
            !.revisions = IF same THEN Min({@ + 1, StableRevisions}) ELSE 0,
            !.stable = same]

\* mark_committed: the prefix grows to the end of the committed text's first
\* occurrence behind it, or is glued together when there is none.
MarkCommitted(u, phrase) ==
    LET found == Occurrences(u.text, phrase, Len(u.prefix))
    IN  [u EXCEPT
            !.prefix = IF found # {}
                       THEN SubSeq(u.text, 1, Min(found) + Len(phrase) - 1)
                       ELSE Strip(@ \o <<Space>> \o phrase),
            !.unsent = FALSE, !.stable = FALSE, !.revisions = 0]

-----------------------------------------------------------------------------
(* PhraseCommitter                                                          *)

\* _check_commit_conditions: a full stop at the end, a limit of time that has
\* run out, or enough revisions with the same first words.  "before" is the
\* utterance before the update.
ReadyToCommit(before, u, due) ==
    LET phrase == Strip(UncommittedText(u))
    IN  /\ phrase # <<>>
        /\ \/ Last(phrase) = FullStop
           \/ due /\ (before.unsent \/ (before.stable /\ u.stable))
           \/ u.revisions >= StableRevisions

\* The state of an utterance when a hypothesis arrives, new if unknown.
UtteranceOf(utterances, uid) ==
    IF uid \in DOMAIN utterances THEN utterances[uid] ELSE FreshUtterance

\* The dictionary with an utterance set, and with one popped.
SetUtterance(utterances, uid, u) ==
    [x \in DOMAIN utterances \cup {uid} |-> IF x = uid THEN u ELSE utterances[x]]
PopUtterance(utterances, uid) ==
    [x \in DOMAIN utterances \ {uid} |-> utterances[x]]

\* The phrase that is committed (empty: none) and the open utterances after it;
\* a final result closes the utterance.
Outcome(utterances, event, u, commits) ==
    LET phrase == Strip(UncommittedText(u))
    IN  [phrase     |-> IF commits THEN phrase ELSE <<>>,
         utterances |->
            IF event.final THEN PopUtterance(utterances, event.uid)
            ELSE SetUtterance(utterances, event.uid,
                              IF commits THEN MarkCommitted(u, phrase) ELSE u)]

\* With a final result committed before its text is applied.
OnTranscriptEvent_CommitsFirst(utterances, event, due) ==
    LET before == UtteranceOf(utterances, event.uid)
        u      == IF event.final THEN before ELSE Update(before, event.text)
    IN  Outcome(utterances, event, u,
                event.final \/ ReadyToCommit(before, u, due))

\* Without the force of a final result.
OnTranscriptEvent_NotForced(utterances, event, due) ==
    LET before == UtteranceOf(utterances, event.uid)
        u      == Update(before, event.text)
    IN  Outcome(utterances, event, u, ReadyToCommit(before, u, due))

\* on_transcript_event: the text is applied, then a final result is committed
\* whatever it is, a partial one when the conditions hold.
OnTranscriptEvent(utterances, event, due) ==
    LET before == UtteranceOf(utterances, event.uid)
        u      == Update(before, event.text)
    IN  Outcome(utterances, event, u,
                event.final \/ ReadyToCommit(before, u, due))

\* flush_all: what every open utterance has left, in the order they came.
FlushAll(utterances) ==
    FlattenSeq([i \in 1 .. Cardinality(DOMAIN utterances) |->
        Strip(UncommittedText(utterances[Nth(DOMAIN utterances, i)]))])
=============================================================================
