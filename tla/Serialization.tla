--------------------------- MODULE Serialization ---------------------------
(***************************************************************************)
(* The serialization example of ex_serialization/: a server that sends its *)
(* stocks to whoever connects, clients that try the endpoints of a host in *)
(* turn and read one message, and the framing both use (connection.hpp): a *)
(* header of header_length hexadecimal characters, then the archive.  Each *)
(* program has one thread, so a handler is one step; programs and network  *)
(* interleave.  TCP is external: it delivers what was sent, in order and   *)
(* in pieces of any length, unless it reports an error.                    *)
(***************************************************************************)
EXTENDS Integers, Sequences, SequencesExt

CONSTANTS Clients,
          Sizes,           \* lengths the serialized stocks_ may have
          Base,            \* base of the header's number, 16
          header_length,
          MaxEndpoints     \* bound: endpoints the host name resolves to

ASSUME SizesAssumption == Sizes \subseteq Nat \ {0}
ASSUME FormatAssumption == Base \in Nat \ {0, 1} /\ header_length \in Nat \ {0}
ASSUME BoundsAssumption == MaxEndpoints \in Nat \ {0}

VARIABLES size,         \* length of the server's archive
          acceptor,     \* "pending", or "none" after a failed accept
          serving,      \* the server's process has not ended
          conn,         \* conn[c]: the server's end: "none", "queued", "writing", "closed"
          unsent,       \* unsent[c]: outbound bytes TCP has not taken yet
          pipe,         \* pipe[c]: bytes on their way to c
          client,       \* client[c]: "connecting", "header", "data", "done"
          endpoint,     \* endpoint[c]: what c is connecting to: the server, or nobody
          untried,      \* untried[c]: endpoint_iterator: endpoints not tried yet
          inbound,      \* inbound[c]: bytes of the read under way
          need,         \* need[c]: how many bytes that read wants
          result        \* result[c]: what c's last handler was told

vars == <<size, acceptor, serving, conn, unsent, pipe, client, endpoint, untried,
          inbound, need, result>>

server == <<size, acceptor, serving>>
network == <<conn, unsent, pipe>>
connecting == <<endpoint, untried>>
reading == <<inbound, need>>

\* Characters: digits are their values, then the space, then the bytes of the
\* archive, each told apart from the others and from digits.
SP == Base
Archive(n) == [k \in 1..n |-> Base + k]

\* The client's constructor has resolved the name and called async_connect, or
\* resolve() threw and main has caught it and ended.
Init ==
  /\ size \in Sizes
  /\ acceptor = "pending" /\ serving = TRUE
  /\ conn = [c \in Clients |-> "none"]
  /\ unsent = [c \in Clients |-> <<>>] /\ pipe = [c \in Clients |-> <<>>]
  /\ client \in [Clients -> {"connecting", "done"}]
  /\ endpoint \in [Clients -> {"server", "nobody"}]
  /\ untried \in [Clients -> BoundedSeq({"server", "nobody"}, MaxEndpoints - 1)]
  /\ inbound = [c \in Clients |-> <<>>] /\ need = [c \in Clients |-> 0]
  /\ result = [c \in Clients |-> "none"]

-----------------------------------------------------------------------------
(* Framing.                                                                *)

\* std::hex: the digits of n, the most significant one first.
Hex(n) ==
  LET digits[m \in 0..n] ==
        IF m < Base THEN <<m>> ELSE Append(digits[m \div Base], m % Base)
  IN  digits[n]

\* std::setw(header_length): padded on the left, never truncated.
Format(n) == [k \in 1..(header_length - Len(Hex(n))) |-> SP] \o Hex(n)

\* Mutant: the length of the header is not checked.
Outbound_unchecked(n) == Format(n) \o Archive(n)

\* What async_write gives to the socket; nothing when the header does not fit,
\* in which case the handler is posted with invalid_argument.
Outbound(n) == IF Len(Format(n)) # header_length THEN <<>> ELSE Format(n) \o Archive(n)

\* The number that digits stand for.
Number(digits) ==
  LET total[k \in 0..Len(digits)] == IF k = 0 THEN 0 ELSE total[k - 1] * Base + digits[k]
  IN  total[Len(digits)]

\* is >> std::hex: skips spaces, takes the digits that follow; -1 for failure.
Parse(header) ==
  LET first == SelectInSeq(header, LAMBDA ch : ch # SP)
      s == IF first = 0 THEN <<>> ELSE SubSeq(header, first, Len(header))
      stop == SelectInSeq(s, LAMBDA ch : ch >= Base)
      digits == IF stop = 0 THEN s ELSE SubSeq(s, 1, stop - 1)
  IN  IF digits = <<>> THEN -1 ELSE Number(digits)

-----------------------------------------------------------------------------
(* The server.                                                             *)

\* async_write of the stocks, and the next accept: acceptor stays "pending".
handle_accept(c) ==
  /\ serving /\ acceptor = "pending" /\ conn[c] = "queued"
  /\ conn' = [conn EXCEPT ![c] = "writing"]
  /\ unsent' = [unsent EXCEPT ![c] = Outbound(size)]
  /\ UNCHANGED <<server, pipe, client, connecting, reading, result>>

\* No new accept.
handle_accept_error ==
  /\ serving /\ acceptor = "pending"
  /\ acceptor' = "none"
  /\ UNCHANGED <<size, serving, network, client, connecting, reading, result>>

\* Mutant: handle_write starts a read, to close the connection after the client.
handle_write_reads(c) ==
  /\ serving /\ unsent[c] = <<>>
  /\ \/ conn[c] = "writing" /\ conn' = [conn EXCEPT ![c] = "reading"]
     \/ conn[c] = "reading" /\ client[c] = "done" /\ conn' = [conn EXCEPT ![c] = "closed"]
  /\ UNCHANGED <<server, unsent, pipe, client, connecting, reading, result>>

\* The write is over; the last reference to the connection goes away.
handle_write(c) ==
  /\ serving /\ conn[c] = "writing" /\ unsent[c] = <<>>
  /\ conn' = [conn EXCEPT ![c] = "closed"]
  /\ UNCHANGED <<server, unsent, pipe, client, connecting, reading, result>>

\* The io_service runs out of work when no operation is outstanding; the kernel
\* drops what was never accepted.
run_returns ==
  /\ serving /\ acceptor = "none"
  /\ \A c \in Clients : conn[c] \in {"none", "queued", "closed"}
  /\ serving' = FALSE
  /\ conn' = [c \in Clients |-> IF conn[c] = "queued" THEN "closed" ELSE conn[c]]
  /\ UNCHANGED <<size, acceptor, unsent, pipe, client, connecting, reading, result>>

-----------------------------------------------------------------------------
(* TCP (external).                                                         *)

\* TCP takes the whole write; it is the reader that sees it in pieces.
transmit(c) ==
  /\ unsent[c] # <<>>
  /\ pipe' = [pipe EXCEPT ![c] = @ \o unsent[c]]
  /\ unsent' = [unsent EXCEPT ![c] = <<>>]
  /\ UNCHANGED <<server, conn, client, connecting, reading, result>>

\* The connection breaks: a write under way is over (handle_write does not look
\* at the error), and what was not read yet is lost.
reset(c) ==
  /\ conn[c] = "queued" \/ unsent[c] # <<>> \/ pipe[c] # <<>>
  /\ conn' = [conn EXCEPT ![c] = IF @ = "queued" THEN "closed" ELSE @]
  /\ unsent' = [unsent EXCEPT ![c] = <<>>] /\ pipe' = [pipe EXCEPT ![c] = <<>>]
  /\ UNCHANGED <<server, client, connecting, reading, result>>

-----------------------------------------------------------------------------
(* A client.                                                               *)

ReadExactly(c, n, phase) ==
  /\ client' = [client EXCEPT ![c] = phase]
  /\ inbound' = [inbound EXCEPT ![c] = <<>>]
  /\ need' = [need EXCEPT ![c] = n]

Finish(c, outcome) ==
  /\ client' = [client EXCEPT ![c] = "done"]
  /\ result' = [result EXCEPT ![c] = outcome]

\* handle_connect without an error: async_read of the header.
handle_connect(c) ==
  /\ client[c] = "connecting" /\ endpoint[c] = "server" /\ serving
  /\ conn' = [conn EXCEPT ![c] = "queued"]
  /\ ReadExactly(c, header_length, "header")
  /\ UNCHANGED <<server, unsent, pipe, connecting, result>>

\* Mutant: the iterator is not advanced.
handle_connect_error_again(c) ==
  /\ client[c] = "connecting"
  /\ \/ untried[c] = <<>> /\ Finish(c, "error") /\ UNCHANGED connecting
     \/ /\ untried[c] # <<>>
        /\ endpoint' = [endpoint EXCEPT ![c] = Head(untried[c])]
        /\ UNCHANGED <<client, result, untried>>
  /\ UNCHANGED <<server, network, reading>>

\* The next endpoint is tried, if there is one.
handle_connect_error(c) ==
  /\ client[c] = "connecting"
  /\ \/ untried[c] = <<>> /\ Finish(c, "error") /\ UNCHANGED connecting
     \/ /\ untried[c] # <<>>
        /\ endpoint' = [endpoint EXCEPT ![c] = Head(untried[c])]
        /\ untried' = [untried EXCEPT ![c] = Tail(untried[c])]
        /\ UNCHANGED <<client, result>>
  /\ UNCHANGED <<server, network, reading>>

\* async_read goes on until it has all it wants.
read_some(c) ==
  /\ client[c] \in {"header", "data"} /\ pipe[c] # <<>>
  /\ Len(inbound[c]) < need[c]
  /\ \E n \in 1..Len(pipe[c]) :
       /\ Len(inbound[c]) + n <= need[c]
       /\ inbound' = [inbound EXCEPT ![c] = @ \o SubSeq(pipe[c], 1, n)]
       /\ pipe' = [pipe EXCEPT ![c] = SubSeq(@, n + 1, Len(@))]
  /\ UNCHANGED <<server, conn, unsent, client, connecting, need, result>>

handle_read_header(c) ==
  /\ client[c] = "header" /\ Len(inbound[c]) = need[c]
  /\ LET n == Parse(inbound[c])
     IN  \/ n = -1 /\ Finish(c, "invalid_argument") /\ UNCHANGED reading
         \/ n # -1 /\ ReadExactly(c, n, "data") /\ UNCHANGED result
  /\ UNCHANGED <<server, network, connecting>>

\* The archive's constructor and operator>> throw unless they find an archive.
handle_read_data(c) ==
  /\ client[c] = "data" /\ Len(inbound[c]) = need[c]
  /\ Finish(c, IF inbound[c] = Archive(size) THEN "ok" ELSE "invalid_argument")
  /\ UNCHANGED <<server, network, connecting, reading>>

\* End of file or a broken connection, during either read.
handle_read_error(c) ==
  /\ client[c] \in {"header", "data"} /\ Len(inbound[c]) < need[c]
  /\ conn[c] = "closed" /\ unsent[c] = <<>> /\ pipe[c] = <<>>
  /\ Finish(c, "error")
  /\ UNCHANGED <<server, network, connecting, reading>>

-----------------------------------------------------------------------------

Server ==
  \/ \E c \in Clients : handle_accept(c) \/ handle_write(c)
  \/ run_returns

Client(c) ==
  \/ handle_connect(c)
  \/ handle_connect_error(c)
  \/ read_some(c)
  \/ handle_read_header(c)
  \/ handle_read_data(c)
  \/ handle_read_error(c)

Next ==
  \/ Server
  \/ handle_accept_error
  \/ \E c \in Clients : Client(c) \/ transmit(c) \/ reset(c)

Spec == Init /\ [][Next]_vars

\* Both programs run, and TCP delivers; errors need not happen.
FairSpec ==
  /\ Spec
  /\ WF_vars(Server)
  /\ \A c \in Clients : WF_vars(Client(c)) /\ WF_vars(transmit(c))

-----------------------------------------------------------------------------

\* Reader and writer agree on the framing: no client of this server is ever
\* told invalid_argument, wherever the stream is cut and whatever the size of
\* the data, also when its length does not fit in the header.
FramesAgree == \A c \in Clients : result[c] # "invalid_argument"

\* Every client ends, with the data or with an error, whichever of its
\* endpoints fail, also when the server stops accepting while it is queued.
ClientEnds == \A c \in Clients : <>(client[c] = "done")

\* "the io_service will run out of work to do and the server will exit" once an
\* accept has failed.
DeafServerExits == acceptor = "none" ~> ~serving
=============================================================================
