------------------------------ MODULE Download ------------------------------
(***************************************************************************)
(* The download of a report: the callbacks head_data and write_data that   *)
(* libcurl calls from get_perf_from_xenserver, and strip, which write_data *)
(* applies to the whole buffer after each piece of the body.               *)
(*                                                                         *)
(* libcurl is outside src/.  It hands write_data the body in order, in     *)
(* pieces of any size, and no more of it than Content-Length announced; a  *)
(* transfer that ends early makes curl_easy_perform fail.                  *)
(***************************************************************************)
EXTENDS Integers, Sequences

CONSTANTS Bodies,   \* the bodies a XenServer may send
          Letter,   \* the bytes other than white space
          SP,       \* white space: blank, \n, \r or \t
          NUL       \* the byte that ends a C string

ASSUME DownloadAssumption ==
  /\ Bodies \subseteq Seq(Letter \union {SP})
  /\ SP \notin Letter
  /\ NUL \notin Letter \union {SP}

VARIABLES phase,    \* what libcurl does next
          body,     \* the body the server sends
          buf,      \* data_return.data, from offset 0; empty while not allocated
          received  \* how much of the body libcurl has delivered

vars == <<phase, body, buf, received>>

Bytes == Letter \union {SP, NUL}

TypeOK ==
  /\ phase \in {"header", "body", "done", "failed"}
  /\ body \in Bodies
  /\ received \in 0..Len(body)
  /\ phase \in {"body", "done"} => buf \in [0..Len(body) -> Bytes]

Init ==
  /\ phase = "header"
  /\ body \in Bodies
  /\ buf = <<>>
  /\ received = 0

-----------------------------------------------------------------------------
(* C strings: a buffer is a function on 0..size-1. *)

Strlen(b) == CHOOSE i \in DOMAIN b : b[i] = NUL /\ \A j \in DOMAIN b : j < i => b[j] # NUL

Memcpy(b, at, s) ==
  [i \in DOMAIN b |-> IF i \in at..at + Len(s) - 1 THEN s[i - at + 1] ELSE b[i]]

(* A broken variant of StripEnd: the last byte goes, whatever it is. *)
StripEndOffByOne(b) ==
  LET n == Strlen(b)
  IN [i \in DOMAIN b |->
        IF i < n /\ \A j \in DOMAIN b : i < j /\ j < n => b[j] = SP THEN NUL ELSE b[i]]

(* The white space before the final NUL becomes NULs. *)
StripEnd(b) ==
  LET n == Strlen(b)
  IN [i \in DOMAIN b |->
        IF i < n /\ \A j \in DOMAIN b : i <= j /\ j < n => b[j] = SP THEN NUL ELSE b[i]]

(***************************************************************************)
(* The rest moves to the front, over its leading white space, and a NUL is *)
(* put after it.  The bytes behind that NUL keep what they were.           *)
(***************************************************************************)
StripBegin(b) ==
  LET x == CHOOSE i \in DOMAIN b : b[i] # SP /\ \A j \in DOMAIN b : j < i => b[j] = SP
      y == Strlen(b)
  IN IF x = 0 THEN b
     ELSE [i \in DOMAIN b |-> IF i < y - x THEN b[i + x]
                              ELSE IF i = y - x THEN NUL ELSE b[i]]

strip(b) == StripBegin(StripEnd(b))

-----------------------------------------------------------------------------
(* Broken variants of head_data: no room for the final NUL, *)
head_data_NoRoom ==
  /\ phase = "header"
  /\ buf' = [i \in 0..Len(body) - 1 |-> NUL]
  /\ phase' = "body"
  /\ UNCHANGED <<body, received>>

(* or memory that calloc has not cleared. *)
head_data_Uncleared ==
  /\ phase = "header"
  /\ buf' = [i \in 0..Len(body) |-> IF i = Len(body) THEN NUL ELSE SP]
  /\ phase' = "body"
  /\ UNCHANGED <<body, received>>

(***************************************************************************)
(* The header Content-Length: as many bytes, and one for the final NUL.    *)
(* The number is what the server announced: the code copies its digits     *)
(* without a NUL into an array on the stack, and that what lies behind     *)
(* them there does not read as more of the number is taken for granted.    *)
(***************************************************************************)
head_data ==
  /\ phase = "header"
  /\ buf' = [i \in 0..Len(body) |-> NUL]
  /\ phase' = "body"
  /\ UNCHANGED <<body, received>>

(* A piece of the body is appended to the string in the buffer. *)
write_data ==
  /\ phase = "body"
  /\ \E n \in 1..Len(body) - received :
       /\ buf' = strip(Memcpy(buf, Strlen(buf), SubSeq(body, received + 1, received + n)))
       /\ received' = received + n
  /\ UNCHANGED <<phase, body>>

(* curl_easy_perform returns 0 and the text goes to Python, *)
Finish ==
  /\ phase = "body"
  /\ received = Len(body)
  /\ phase' = "done"
  /\ UNCHANGED <<body, buf, received>>

(* or it fails, and the buffer is left to nobody. *)
Fail ==
  /\ phase \in {"header", "body"}
  /\ phase' = "failed"
  /\ UNCHANGED <<body, buf, received>>

Next == head_data \/ write_data \/ Finish \/ Fail

Spec == Init /\ [][Next]_vars

-----------------------------------------------------------------------------
(* Properties *)

(***************************************************************************)
(* write_data, which checks no length, writes inside the buffer: all that  *)
(* is left of the body, which may come in one piece, fits behind the       *)
(* string that strip has made of the pieces before, and before the NUL.    *)
(***************************************************************************)
NoOverflow == phase = "body" => Strlen(buf) + (Len(body) - received) <= Len(body)

(***************************************************************************)
(* Whatever the pieces, the text in the buffer has every byte of the body  *)
(* received so far but white space, in order, and nothing else: all that   *)
(* write_data's strip takes away is white space.  (Of a body that does not *)
(* begin with white space: see LeadingSpaceRemoved.)                       *)
(***************************************************************************)
Text(b) == [i \in 1..Strlen(b) |-> b[i - 1]]

Visible(s) ==
  LET seen[n \in 0..Len(s)] ==
        IF n = 0 THEN <<>>
        ELSE IF s[n] = SP THEN seen[n - 1] ELSE Append(seen[n - 1], s[n])
  IN seen[Len(s)]

BeginsVisible == body # <<>> => body[1] # SP

OnlySpaceLost ==
  phase \in {"body", "done"} /\ BeginsVisible =>
    Visible(Text(buf)) = Visible(SubSeq(body, 1, received))

(***************************************************************************)
(* utils.c says of the shift in strip that it is there "to remove leading  *)
(* whitespace", and converter.py that the "content maybe with some space": *)
(* a body that begins with white space arrives, but for that, as sent.     *)
(***************************************************************************)
LeadingSpaceRemoved == phase = "done" => Visible(Text(buf)) = Visible(body)
=============================================================================
