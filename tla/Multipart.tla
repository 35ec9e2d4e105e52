------------------------------ MODULE Multipart ------------------------------
(***************************************************************************)
(* How an uploaded file is cut out of the body of a multipart request      *)
(* (_multipartFileInputHandler in main/servers/fb_server_update.cpp).  The *)
(* body is                                                                 *)
(*     header with an empty line | data | separator | line break           *)
(* and is known here by the positions of its bytes only.  The handler      *)
(* receives it in blocks of any length up to its buffer, and passes parts  *)
(* of what it received to a callback, in three states: looking for the     *)
(* beginning of the data, providing data, looking for its end.             *)
(***************************************************************************)
EXTENDS Integers, FiniteSets, FiniteSetsExt

CONSTANTS HeaderLen,     \* bytes up to the end of the empty line
          DataLens,      \* lengths of files
          SeparatorLen,  \* length of \r\n--boundary--
          TailLen,       \* the line break after it
          BufferLen      \* bytes received at most at once

MultipartAssumption ==
  /\ {HeaderLen, SeparatorLen, BufferLen} \subseteq Nat \ {0}
  /\ TailLen \in Nat /\ DataLens \subseteq Nat

VARIABLES dataLen, text,  \* the file; text: no byte of it is zero
          remaining,      \* bytes of the body not yet received
          state,          \* of the handler
          passed,         \* positions handed to the callback
          last            \* the part handed over last: [from, to)

vars == <<dataLen, text, remaining, state, passed, last>>

Length == HeaderLen + dataLen + SeparatorLen + TailLen
DataEnd == HeaderLen + dataLen

Init ==
  /\ dataLen \in DataLens /\ text \in BOOLEAN
  /\ remaining = Length
  /\ state = "header"
  /\ passed = {} /\ last = [from |-> HeaderLen, to |-> HeaderLen]

\* Mutant: the separator is taken to end in this block.
ValidLenShort(from, received, rest, block) ==
  IF rest = 0
  THEN IF text /\ from <= DataEnd THEN DataEnd - from ELSE received - SeparatorLen
  ELSE IF rest <= SeparatorLen THEN received - (from - block) - SeparatorLen
       ELSE received - (from - block)

\* valid_len: received bytes start at block, those after the header at from, rest are
\* still to come.  strstr() finds a separator that lies in the block and has no
\* zero byte before it.
ValidLen(from, received, rest, block) ==
  IF rest = 0
  THEN IF text /\ from <= DataEnd THEN DataEnd - from ELSE received - SeparatorLen
  ELSE IF rest <= SeparatorLen
       THEN received - ((from - block) - (SeparatorLen - rest))
       ELSE received - (from - block)

Provide(from, received, rest, block) ==
  LET to == from + ValidLen(from, received, rest, block)
  IN  /\ passed' = passed \cup from..(to - 1)
      /\ last' = [from |-> from, to |-> to]
      /\ state' = IF rest > 0 /\ rest <= SeparatorLen THEN "end" ELSE "data"

\* The first block has the whole header, the assert holds ...
ReceiveHeader(received) ==
  /\ state = "header" /\ received >= HeaderLen
  /\ Provide(HeaderLen, received, remaining - received, 0)

\* ... or fails.
ReceivePartOfHeader(received) ==
  /\ state = "header" /\ received < HeaderLen
  /\ state' = "aborted" /\ UNCHANGED <<passed, last>>

ReceiveData(received) ==
  LET block == Length - remaining
  IN  /\ state = "data"
      /\ Provide(block, received, remaining - received, block)

ReceiveEnd == state = "end" /\ UNCHANGED <<state, passed, last>>

\* httpd_req_recv(); a timeout is tried again.
Receive ==
  \E received \in 1..Min({BufferLen, remaining}) :
    /\ remaining' = remaining - received
    /\ ReceiveHeader(received) \/ ReceivePartOfHeader(received) \/ ReceiveData(received) \/ ReceiveEnd
    /\ UNCHANGED <<dataLen, text>>

Done == remaining = 0 /\ UNCHANGED vars
Stopped == state = "aborted" /\ UNCHANGED vars

Next == (remaining > 0 /\ state # "aborted" /\ Receive) \/ Done \/ Stopped

Spec == Init /\ [][Next]_vars

-----------------------------------------------------------------------------
(* Properties *)

\* However the body is cut into blocks, no byte of the file is lost: what is
\* passed begins with it and has no gap, and holds all of it at the end.
NothingIsLost ==
  /\ passed = IF passed = {} THEN {} ELSE HeaderLen..(last.to - 1)
  /\ remaining = 0 /\ state # "aborted" => HeaderLen..(DataEnd - 1) \subseteq passed
=============================================================================
