---------------------------- MODULE HttpRequest -----------------------------
(***************************************************************************)
(* One connection as its worker sees it (server.c): nya_http_receive reads *)
(* a request from a stream that arrives in pieces of any size, the request *)
(* is parsed, origin and token are checked, and the answer is sent in      *)
(* pieces.  A stream is a sequence of symbols that stand for bytes: the    *)
(* request line, "nl" for CR LF, one symbol for each header line, "nul",   *)
(* and anything else in the body.                                          *)
(***************************************************************************)
EXTENDS Integers, Sequences, FiniteSets, FiniteSetsExt

CONSTANTS Streams,      \* what clients send
          Starts,       \* request lines that parse
          KeyStarts,    \* those whose path is one of the Anthropic API
          Field,        \* the field and value of each header line that parses
          Length,       \* the numbers Content-Length values mean, where they do
          HeaderLimit,  \* NYA_HTTP_HEADER_BLOCK_LIMIT
          Capacity,     \* request_capacity: max_request_bytes + 1
          ReplySize     \* bytes of an answer (bound)

VARIABLES
  stream, total,     \* what the client sends, how much has been received
  head, declared,    \* header_bytes, body_length; 0 before the headers end
  result,            \* what nya_http_receive returned, 1 while it runs
  lost,              \* recv failed
  status, sent       \* the answer, how much of it was sent

vars == <<stream, total, head, declared, result, lost, status, sent>>

Running == 1

Init == /\ stream \in Streams
        /\ total = 0 /\ head = 0 /\ declared = 0
        /\ result = Running /\ lost = FALSE
        /\ status = 0 /\ sent = 0

-----------------------------------------------------------------------------
(* Headers                                                                 *)

\* strstr for the blank line, which stops at a NUL: the ends found in n bytes.
Ends(n) == {i \in 2 .. n : /\ stream[i - 1] = "nl" /\ stream[i] = "nl"
                           /\ \A j \in 1 .. i : stream[j] # "nul"}

HasNul(n) == \E i \in 1 .. n : stream[i] = "nul"

HeaderLines(h) == {i \in 2 .. h : stream[i] # "nl"}
WellFormed(h)  == \A i \in HeaderLines(h) : stream[i] \in DOMAIN Field
Named(h, name) == {i \in HeaderLines(h) : stream[i] \in DOMAIN Field /\ Field[stream[i]].name = name}

\* nya_http_header_value does not fail: every line parses, the field comes once.
Readable(h, name) == /\ WellFormed(h)
                     /\ Cardinality(Named(h, name)) <= 1

Values(h, name) == {Field[stream[i]].value : i \in Named(h, name)}

\* No Content-Length means no body.
BodyLength(h) == IF Values(h, "Content-Length") = {} THEN 0
                 ELSE Length[CHOOSE v \in Values(h, "Content-Length") : TRUE]

\* The checks of a header block of h bytes, in the order of the code.
HeaderResult(h) ==
  IF h > HeaderLimit THEN -3
  ELSE IF \/ ~Readable(h, "Content-Length")
          \/ ~(Values(h, "Content-Length") \subseteq DOMAIN Length)
          \/ ~Readable(h, "Transfer-Encoding")
          \/ Values(h, "Transfer-Encoding") # {} THEN -1
  ELSE IF BodyLength(h) > Capacity - h - 1 THEN -2
  ELSE Running

\* nya_http_parse_request: the request line, and fields with one value each.
ParseResult(h) == IF /\ stream[1] \in Starts
                     /\ \A name \in {"Authorization", "x-api-key", "Origin"} : Readable(h, name)
                  THEN 0 ELSE -1

-----------------------------------------------------------------------------
(* nya_http_receive                                                        *)

\* What is known after another piece: the headers are checked when their end
\* has arrived, the request is parsed when its declared length has.
Examined ==
  LET full == IF total' >= Capacity - 1 THEN -2 ELSE Running
  IN  IF head' = 0 THEN IF HasNul(total') THEN -1 ELSE IF total' >= HeaderLimit THEN -3 ELSE full
      ELSE IF HeaderResult(head') # Running THEN HeaderResult(head')
      ELSE IF total' >= head' + declared' THEN ParseResult(head') ELSE full

\* Mutant: the limit is applied to everything received.
PieceLimitsAll(n) ==
  /\ result = Running /\ total < Capacity - 1
  /\ total' = total + n
  /\ head' = IF Ends(total') = {} THEN 0 ELSE Min(Ends(total'))
  /\ declared' = IF head' = 0 \/ HeaderResult(head') # Running THEN 0 ELSE BodyLength(head')
  /\ result' = IF total' >= HeaderLimit THEN -3 ELSE Examined
  /\ UNCHANGED <<stream, lost, status, sent>>

\* n more bytes.
Piece(n) ==
  /\ result = Running /\ total < Capacity - 1
  /\ total' = total + n
  /\ head' = IF head # 0 THEN head ELSE IF Ends(total') = {} THEN 0 ELSE Min(Ends(total'))
  /\ declared' = IF head' = 0 \/ HeaderResult(head') # Running THEN 0 ELSE BodyLength(head')
  /\ result' = Examined
  /\ UNCHANGED <<stream, lost, status, sent>>

\* What recv returns fits the buffer and has been sent.
Receive == \E n \in 1 .. Len(stream) - total : total + n < Capacity /\ Piece(n)

\* The client closed, or the connection broke.
ReceiveFails == /\ result = Running
                /\ result' = -1 /\ lost' = TRUE
                /\ UNCHANGED <<stream, total, head, declared, status, sent>>

\* nya_socket_wait: the deadline of the whole transfer, or the server stops.
ReceiveExpires == /\ result = Running
                  /\ result' = -4
                  /\ UNCHANGED <<stream, total, head, declared, lost, status, sent>>

-----------------------------------------------------------------------------
(* nya_server_handle_client and nya_http_dispatch_request                  *)

Answer(s) == /\ status' = s
             /\ UNCHANGED <<stream, total, head, declared, result, lost, sent>>

Refuse == /\ status = 0 /\ result < 0
          /\ Answer(CASE result = -1 -> 400 [] result = -2 -> 413 [] result = -3 -> 431 [] OTHER -> 408)

\* No request buffer could be allocated.
NoBuffer == /\ status = 0 /\ total = 0 /\ result = Running
            /\ result' = -1 /\ status' = 503 /\ lost' = TRUE
            /\ UNCHANGED <<stream, total, head, declared, sent>>

\* nya_origin_allowed: none, or one of the known ones.
OriginAllowed == Values(head, "Origin") \subseteq {"allowed"}

\* nya_auth_valid of the bearer token and, where the API has one, of the key.  A
\* key that is sent decides, and a bearer token beside it must be right too.
UsesKey       == stream[1] \in KeyStarts /\ Values(head, "x-api-key") # {}
Authenticated ==
  LET bearer == Values(head, "Authorization")
  IN  IF UsesKey THEN Values(head, "x-api-key") = {"token"} /\ bearer \subseteq {"token"}
      ELSE bearer = {"token"}

\* Origins first, then preflight requests, which carry no token.
Gate == /\ status = 0 /\ result = 0
        /\ Answer(IF ~OriginAllowed THEN 403
                  ELSE IF stream[1] = "OPTIONS" THEN 204
                  ELSE IF ~Authenticated THEN 401 ELSE 200)

\* nya_socket_send_all: the whole answer in pieces, or a broken connection.
Send == /\ status > 0 /\ sent < ReplySize
        /\ \E n \in 1 .. ReplySize - sent : sent' = sent + n
        /\ UNCHANGED <<stream, total, head, declared, result, lost, status>>

SendFails == /\ status > 0 /\ sent < ReplySize
             /\ status' = -1
             /\ UNCHANGED <<stream, total, head, declared, result, lost, sent>>

Closed == (status = -1 \/ sent = ReplySize) /\ UNCHANGED vars

Next == \/ Receive \/ ReceiveFails \/ ReceiveExpires
        \/ Refuse \/ NoBuffer \/ Gate
        \/ Send \/ SendFails \/ Closed

Spec == Init /\ [][Next]_vars

-----------------------------------------------------------------------------
(* Properties                                                              *)

\* A stream begins with a whole request, whatever pieces it comes in.
Whole ==
  LET ends == Ends(Len(stream))
      h    == Min(ends)
      once(name) == Cardinality(Named(h, name)) <= 1
  IN  /\ ends # {} /\ h <= HeaderLimit
      /\ WellFormed(h)
      /\ \A name \in {"Content-Length", "Authorization", "x-api-key", "Origin"} : once(name)
      /\ Named(h, "Transfer-Encoding") = {}
      /\ Values(h, "Content-Length") \subseteq DOMAIN Length
      /\ stream[1] \in Starts
      /\ h + BodyLength(h) <= Capacity - 1
      /\ h + BodyLength(h) <= Len(stream)

(* The pieces in which a stream arrives decide nothing: a request is       *)
(* accepted when its stream begins with a whole one and never otherwise,   *)
(* its body is what its one Content-Length says, and it is executed only   *)
(* when its origin is allowed, no credential it shows is wrong and one of  *)
(* those its API knows is right.                                           *)
FramingIsExact ==
  /\ result = 0 => /\ Whole
                   /\ head = Min(Ends(Len(stream))) /\ declared = BodyLength(head)
                   /\ total >= head + declared
  /\ result \in {-1, -2, -3} /\ ~lost => ~Whole
  /\ status = 200 =>
       LET shown == Values(head, "Authorization")
                    \cup (IF stream[1] \in KeyStarts THEN Values(head, "x-api-key") ELSE {})
       IN  result = 0 /\ shown = {"token"} /\ Values(head, "Origin") \subseteq {"allowed"}
=============================================================================
