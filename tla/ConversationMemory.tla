------------------------- MODULE ConversationMemory -------------------------
(***************************************************************************)
(* ConversationMemoryProjector: the part of a stored conversation that a   *)
(* request remembers, within the tokens a router may be shown.             *)
(*                                                                         *)
(* The length of a text is counted in quarter tokens: an ASCII character   *)
(* is one, any other character is four.  The rendering adds its tags, and  *)
(* eleven characters to every evidence marker of an earlier answer, which  *)
(* must not be taken for one of this request.                              *)
(***************************************************************************)
EXTENDS SessionStore, RequestContext

CONSTANTS
    TurnLength(_),    \* the quarter tokens of a turn's texts
    MarkersIn(_),     \* how many markers a turn's texts have
    SummaryLength(_)  \* the quarter tokens of a summary's text

ASSUME LengthsAssumption ==
    /\ \A turn \in Turns : TurnLength(turn) \in Nat /\ MarkersIn(turn) \in Nat
    /\ \A text \in SummaryTexts : SummaryLength(text) \in Nat

(* ConservativeCharacterTokenEstimator.estimate of a text with characters  *)
Estimate(length) == (length + 3) \div 4

MemoryTags == 64
SummaryTags == 40
TurnTags == 123
HistoricalMark == 11

RenderedTurn(turn) == TurnTags + TurnLength(turn) + HistoricalMark * MarkersIn(turn)

(* The turns, the newest first.                                            *)
RenderedTurns(turns) ==
    LET rendered[n \in 0 .. Len(turns)] ==
            IF n = 0 THEN 0
            ELSE rendered[n - 1] + RenderedTurn(turns[Len(turns) - n + 1])
    IN  rendered[Len(turns)]

(* Summaries are stored without markers.                                   *)
Rendered(text, turns) ==
    MemoryTags
    + (IF text = None THEN 0 ELSE SummaryTags + SummaryLength(text))
    + RenderedTurns(turns)

TokenAllowance == Available("router")

Fits(text, turns) == Estimate(Rendered(text, turns)) <= TokenAllowance

SummaryText(s) == IF s.summary = None THEN None ELSE s.summary.text

(* The loop over the turns, the newest first, up to one that does not fit. *)
Taken(s) ==
    LET taken[n \in 0 .. Len(s.turns)] ==
            IF n = 0 THEN 0
            ELSE IF taken[n - 1] = n - 1 /\ Fits(SummaryText(s), Newest(s.turns, n))
            THEN n ELSE taken[n - 1]
    IN  taken[Len(s.turns)]

(* There is something to remember, and the summary fits; else project      *)
(* returns None.                                                           *)
Remembers(s) == (s.summary # None \/ Taken(s) > 0) /\ Fits(SummaryText(s), <<>>)

Project(s) == [summary |-> s.summary, turns |-> Newest(s.turns, Taken(s))]

-----------------------------------------------------------------------------
(* How many of its newest turns fit beside a summary.                      *)
Fitting(s) == {n \in 0 .. Len(s.turns) : Fits(SummaryText(s), Newest(s.turns, n))}

(* What a client that read the session remembers is its summary and then   *)
(* the newest turns of the conversation, as many as fit and none left out  *)
(* between them; it remembers nothing only if there is nothing, or if not  *)
(* the summary, or without one the newest turn, fits.  Turns it shows in   *)
(* full follow the summary at once, unless max_turns dropped some.         *)
MemoryIsNewestThatFits ==
    \A c \in Clients :
        held[c] # None =>
            LET s == held[c]
                memory == Project(s)
                current == s.era = session.era /\ s.version = session.version
            IN  IF ~Remembers(s)
                THEN IF s.summary = None THEN Fitting(s) \subseteq {0} ELSE Fitting(s) = {}
                ELSE /\ Len(memory.turns) = Max(Fitting(s))
                     /\ current =>
                            /\ memory.turns = Newest(session.history, Len(memory.turns))
                            /\ (memory.summary # None /\ session.dropped = 0
                                    /\ Max(Fitting(s)) = Len(s.turns)) =>
                                   memory.summary.covered_turn_count + Len(memory.turns)
                                       = Len(session.history)

(* Every size a memory may have, and those that displace nothing.          *)
MemoryTokens ==
    {Estimate(Rendered(text, turns)) :
        text \in SummaryTexts \cup {None}, turns \in BoundedSeq(Turns, MaxTurns)}

HarmlessMemories == {size \in MemoryTokens : DisplacesNothing(size)}

(* However long the question and the answers of the request that remembers *)
(* it, a memory displaces nothing else from a prompt, fails no selection,  *)
(* and is shown to the nodes that remember where there is room for it.     *)
MemoryDisplacesNothing ==
    \A c \in Clients :
        held[c] # None /\ Remembers(held[c]) =>
            LET memory == Project(held[c])
            IN  Estimate(Rendered(SummaryText(memory), memory.turns)) \in HarmlessMemories

(* What is remembered of a conversation is the newest part of it that fits *)
(* and it displaces nothing of the request that remembers it.              *)
MemoryStaysInItsPlace == MemoryIsNewestThatFits /\ MemoryDisplacesNothing
=============================================================================
