------------------------------- MODULE LogLine -------------------------------
(* How Logger::log() of src/logger.cpp puts a line together in two fixed    *)
(* buffers: the caller's text in msg, then, piece by piece, the line in     *)
(* formattedMsg.  Only lengths matter here.  snprintf() returns the length  *)
(* it would have written, or a negative number on an error; the code        *)
(* advances by what fits.                                                   *)
EXTENDS Integers

CONSTANTS MaxBufSize,  \* the size of both buffers
          MaxPiece     \* bound on the length of a piece

ASSUME LogLineAssumption == /\ MaxBufSize \in Nat \ {0}
                            /\ MaxPiece \in Nat

VARIABLES piece,   \* the piece that is next
          msgLen,  \* strlen(msg)
          len,     \* strlen(formattedMsg), and where the next piece goes
          total    \* the length the line would have in a buffer without end

lineVars == <<piece, msgLen, len, total>>

LineInit == /\ piece = "text"
            /\ msgLen = 0 /\ len = 0 /\ total = 0

AtMost(n, limit) == IF n <= limit THEN n ELSE limit

\* What snprintf() may return for a piece.
Returned == -1 .. MaxPiece

\* vsnprintf() of the caller's text: position, clamped to the buffer, and a
\* newline at its end removed.
FormatText(length, newline) ==
  /\ piece = "text"
  /\ LET position == IF length > 0 THEN AtMost(length, MaxBufSize - 1) ELSE 0
     IN  msgLen' = IF newline /\ position > 0 THEN position - 1 ELSE position
  /\ piece' = "time"
  /\ UNCHANGED <<len, total>>

AppendReturned(ret) == len' = len + ret /\ total' = total + ret

AppendIfFits(ret) ==
  /\ len' = IF ret > 0 /\ len + ret < MaxBufSize THEN len + ret ELSE len
  /\ total' = IF ret > 0 THEN total + ret ELSE total

\* The lambda snAppend.
SnAppend(ret) ==
  /\ len' = IF ret > 0 /\ len < MaxBufSize - 1
              THEN len + AtMost(ret, MaxBufSize - len - 1) ELSE len
  /\ total' = IF ret > 0 THEN total + ret ELSE total

\* Time, location or function, and thread are there if the format has them.
Optional == {"time", "place", "thread"}

After(s) == CASE s = "time" -> "prefix" [] s = "prefix" -> "place"
              [] s = "place" -> "thread" [] s = "thread" -> "message"

AppendPiece(ret) ==
  /\ piece \in Optional \cup {"prefix"}
  /\ SnAppend(ret)
  /\ piece' = After(piece)
  /\ UNCHANGED msgLen

SkipPiece ==
  /\ piece \in Optional
  /\ piece' = After(piece)
  /\ UNCHANGED <<msgLen, len, total>>

\* ": %s" with the caller's text.
AppendMessage ==
  /\ piece = "message"
  /\ SnAppend(2 + msgLen)
  /\ piece' = "done"
  /\ UNCHANGED msgLen

LineNext == \/ \E length \in Returned, newline \in BOOLEAN : FormatText(length, newline)
            \/ \E ret \in Returned : AppendPiece(ret)
            \/ SkipPiece \/ AppendMessage

LineSpec == LineInit /\ [][LineNext]_lineVars
-----------------------------------------------------------------------------
\* The lengths are numbers and the pieces those of log().
TypeOK == /\ piece \in {"text", "time", "prefix", "place", "thread", "message", "done"}
          /\ msgLen \in Nat /\ len \in Nat /\ total \in Nat

\* Both texts and their terminating zero stay inside their buffers, and the
\* next piece is written to a place inside (logger.cpp:410-411: a length
\* beyond the buffer would make "the next formattedMsg+len OOB").
InBuffer == msgLen < MaxBufSize /\ len < MaxBufSize

\* The line is the beginning of the one an endless buffer would hold: nothing
\* is lost before the buffer is full, whatever piece fills it.
LongestPrefix == len = AtMost(total, MaxBufSize - 1)
=============================================================================
