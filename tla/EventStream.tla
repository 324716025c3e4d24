---------------------------- MODULE EventStream ----------------------------
(***************************************************************************)
(* The event stream of src/src/client.rs: bytes arrive in chunks of any    *)
(* size, and decode_next_frame cuts them into frames at blank lines, where *)
(* a line may end in CR, LF or CRLF.  A frame with data becomes an event,  *)
(* one without is passed over, one that is too long ends the stream.       *)
(*                                                                         *)
(* A byte is "r" (CR), "n" (LF), "d" (the start of a line of data, or data *)
(* itself) or "c" (the start of a comment).                                *)
(*                                                                         *)
(* Left out: a frame that is not UTF-8 or whose data is no event in JSON.  *)
(* It ends the stream with an error; here all data is an event.            *)
(***************************************************************************)
EXTENDS Ordering, Sequences

CONSTANTS Texts,    \* what a server may send
          MaxFrame  \* MAX_SSE_FRAME_SIZE

MaxDelimiterPrefix == 3

VARIABLES
  text,    \* what the server sends until it closes the connection
  fed,     \* how many bytes of it have arrived
  buffer,  \* bytes not yet decoded
  from,    \* search_from, counted from 1
  closed,  \* the end of the stream was seen
  events,  \* events yielded: for each the bytes of its frame
  failed   \* the stream ended with a frame that was too long

streamVars == <<text, fed, buffer, from, closed, events, failed>>

Endings == {"r", "n"}

ASSUME StreamAssumption ==
  /\ Texts \subseteq Seq(Endings \cup {"d", "c"})
  /\ MaxFrame \in Nat \ {0}

Behind(s, k) == SubSeq(s, k + 1, Len(s))

-----------------------------------------------------------------------------
(* The decoder.                                                            *)

\* leading_line_ending_length: 0 where there is none.
LeadingEnding(b, end) ==
  IF b = <<>> \/ b[1] \notin Endings \/ (b = <<"r">> /\ ~end) THEN 0
  ELSE IF Len(b) > 1 /\ b[1] = "r" /\ b[2] = "n" THEN 2
  ELSE 1

\* incomplete_frame_is_too_large
TooLarge(b) ==
  LET suffix == Behind(b, MaxFrame)
  IN  /\ Len(b) > MaxFrame
      /\ suffix \notin {<<"n">>, <<"r">>, <<"n", "r">>, <<"r", "r">>, <<"r", "n">>,
                        <<"r", "n", "r">>}

\* A line ending in CR and LF is one.
EndingLength(b, p) == IF b[p] = "r" /\ p < Len(b) /\ b[p + 1] = "n" THEN 2 ELSE 1

\* Where a line ends that a blank one follows.
FrameEnds(b, start) ==
  {p \in start .. Len(b) : /\ b[p] \in Endings
                           /\ p + EndingLength(b, p) <= Len(b)
                           /\ b[p + EndingLength(b, p)] \in Endings}

\* frame_end_from: the frame's length and that of the blank line behind it, of
\* which the first byte is enough; <<>> if there is none.  A CR at the end of the
\* buffer may be the end of a line or half of it, but ends no frame.
FrameEnd(b, start) ==
  IF FrameEnds(b, start) = {} THEN <<>>
  ELSE LET p == CHOOSE q \in FrameEnds(b, start) : \A o \in FrameEnds(b, start) : q <= o
       IN  <<p - 1, EndingLength(b, p) + 1>>

\* parse_frame: is there a line of data in the frame?
HasData(frame) ==
  \E p \in DOMAIN frame : frame[p] = "d" /\ (p = 1 \/ frame[p - 1] \in Endings)

\* Mutant of SearchFrom: the search goes on behind what was searched.
SearchFromEnd(b) == Len(b) + 1

\* Where the next search begins when none was found.
SearchFrom(b) == IF Len(b) < 3 THEN 1 ELSE Len(b) - 2

-----------------------------------------------------------------------------
(* One round of decode_next_frame.                                         *)

Frame == FrameEnd(buffer, from)

Leading == LeadingEnding(buffer, closed)

SkipEnding ==
  /\ ~failed /\ Leading > 0
  /\ buffer' = Behind(buffer, Leading)
  /\ from' = 1
  /\ UNCHANGED <<text, fed, closed, events, failed>>

CutFrame ==
  /\ ~failed /\ Leading = 0 /\ Frame # <<>>
  /\ buffer' = Behind(buffer, Frame[1] + Frame[2])
  /\ from' = 1
  /\ LET frame == SubSeq(buffer, 1, Frame[1])
     IN  /\ failed' = (Frame[1] > MaxFrame)
         /\ events' = IF ~failed' /\ HasData(frame) THEN Append(events, frame) ELSE events
  /\ UNCHANGED <<text, fed, closed>>

Pending == ~failed /\ Leading = 0 /\ Frame = <<>>

Overflow ==
  /\ Pending /\ TooLarge(buffer)
  /\ failed' = TRUE
  /\ UNCHANGED <<text, fed, buffer, from, closed, events>>

\* The next chunk is waited for.
Chunk(length) ==
  /\ Pending /\ ~TooLarge(buffer) /\ ~closed
  /\ length \in 1 .. Len(text) - fed
  /\ buffer' = buffer \o SubSeq(text, fed + 1, fed + length)
  /\ fed' = fed + length
  /\ from' = SearchFrom(buffer)
  /\ UNCHANGED <<text, closed, events, failed>>

Close ==
  /\ Pending /\ ~TooLarge(buffer) /\ ~closed
  /\ fed = Len(text)
  /\ closed' = TRUE
  /\ from' = SearchFrom(buffer)
  /\ UNCHANGED <<text, fed, buffer, events, failed>>

StreamInit ==
  /\ text \in Texts
  /\ fed = 0 /\ buffer = <<>> /\ from = 1
  /\ closed = FALSE /\ events = <<>> /\ failed = FALSE

StreamNext ==
  \/ SkipEnding \/ CutFrame \/ Overflow \/ Close
  \/ \E length \in 1 .. Len(text) : Chunk(length)

-----------------------------------------------------------------------------
(* What the framing of event streams asks for, of a text as a whole.       *)

\* Where line endings begin: CRLF is one ending.
Breaks(t) == {p \in DOMAIN t : t[p] = "r" \/ (t[p] = "n" /\ ~(p > 1 /\ t[p - 1] = "r"))}

LineStarts(t) == {1} \cup {p + EndingLength(t, p) : p \in Breaks(t)}

\* The lines with nothing before their ending.
Blanks(t) == Breaks(t) \cap LineStarts(t)

\* Where a block of lines begins: with the text, or behind a blank line.
BlockStarts(t) ==
  {a \in DOMAIN t : t[a] \notin Endings /\ a \in {1} \cup {p + EndingLength(t, p) : p \in Blanks(t)}}

\* The blocks of lines between blank lines, each up to the ending of its last
\* line; one that no blank line follows does not count.
Blocks(t) ==
  {block \in [first : BlockStarts(t), ending : Breaks(t)] :
     /\ block.first < block.ending
     /\ block.ending + EndingLength(t, block.ending) \in Blanks(t)
     /\ \A p \in Blanks(t) : p \notin block.first .. block.ending}

\* Those with a line of data, in their order.
Events(t) ==
  LET told == {block \in Blocks(t) :
                 \E p \in LineStarts(t) : p \in block.first .. block.ending /\ t[p] = "d"}
  IN  InOrder(told, [block \in told |-> block.first])

\* Is a block too long, or what comes behind the last blank line?
Overlong(t) ==
  \/ \E block \in Blocks(t) : block.ending - block.first > MaxFrame
  \/ \E a \in BlockStarts(t) : (\A p \in Blanks(t) : p < a) /\ TooLarge(SubSeq(t, a, Len(t)))

-----------------------------------------------------------------------------
(* Properties.                                                             *)

\* However the bytes are cut into chunks, in the middle of a CRLF or of a
\* blank line as well, the events yielded are those of the text, in order;
\* when the stream ends without a frame too long they are all of them; and
\* whether a frame is too long does not depend on the chunks either.
FramesFaithful ==
  /\ Len(events) <= Len(Events(text))
  /\ \A i \in DOMAIN events :
       events[i] = SubSeq(text, Events(text)[i].first, Events(text)[i].ending - 1)
  /\ closed /\ Pending /\ ~TooLarge(buffer) => Len(events) = Len(Events(text)) /\ ~Overlong(text)
  /\ failed => Overlong(text)
=============================================================================
