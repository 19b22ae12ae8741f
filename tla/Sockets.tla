------------------------------ MODULE Sockets ------------------------------
(***************************************************************************)
(* vl_socket on both platforms: the handles the library allocates over the *)
(* sockets of the system, a listener, a client and an accepted connection  *)
(* in one process.  The system is external: what is modelled of it is what *)
(* the wrappers rely on (a listening queue, one byte stream per direction, *)
(* end of stream, resets, the mode of a descriptor).                       *)
(***************************************************************************)
EXTENDS Integers, Sequences, FiniteSets, SequencesExt

CONSTANTS
    SocketPlatforms,  \* subset of {"posix", "win32"}
    Domains,          \* subset of {"ipv4", "ipv6"}
    OptionNames,      \* subset of {"REUSEADDR", "NODELAY", "KEEPALIVE"}
    Ports,            \* ports, each a pair of bytes in the host's (little-endian) order
    MaxEnds,          \* bound of the model on sockets the system hands out
    MaxBytes,         \* bound of the model on bytes sent by one socket
    MaxMade           \* bound of the model on sockets and calls that set a mode or an option, together

VARIABLES
    plat, started,    \* platform; WSAStartup has succeeded
    sock,             \* handle -> struct vl_socket_, or NoSocket
    kern,             \* the system's sockets, by descriptor
    asked,            \* option -> value last set on the client, calls that set something (history)
    killed            \* SIGPIPE has ended the process

sockVars == <<plat, started, sock, kern, asked, killed>>

Handles == {"listener", "client", "accepted"}
NoSocket == [fd |-> 0, domain |-> "none", blocking |-> TRUE, inherited |-> FALSE]
NoAddress == [domain |-> "none", port |-> <<0, 0>>]
Live(h) == sock[h].fd # 0 /\ ~killed
K(h) == kern[sock[h].fd]
\* The bounds leave room for another call that sets something, and for a socket.
Spare == Len(kern) + asked.calls < MaxMade
Room == Spare /\ Len(kern) < MaxEnds

\* htons, ntohs: the bytes of the port change places.
Swapped(port) == <<port[2], port[1]>>
ToNative(addr) == [addr EXCEPT !.port = Swapped(@)]
FromNative(addr) == [addr EXCEPT !.port = Swapped(@)]

\* A socket of the system: "in" is what has arrived and is not read, "sent" and "got"
\* count the bytes its owner sent and received.
Fresh(domain) ==
    [state |-> "new", domain |-> domain, local |-> NoAddress, remote |-> NoAddress, given |-> NoAddress, nonblock |-> FALSE,
     open |-> TRUE, peer |-> 0, queue |-> << >>, in |-> << >>, eof |-> FALSE, reset |-> FALSE,
     sent |-> 0, got |-> 0, ended |-> FALSE, shutR |-> FALSE, shutW |-> FALSE,
     opts |-> [o \in OptionNames |-> FALSE]]

SocketsInit ==
    /\ plat \in SocketPlatforms /\ started = FALSE /\ killed = FALSE
    /\ sock = [h \in Handles |-> NoSocket] /\ kern = << >>
    /\ asked = [value |-> [o \in OptionNames |-> FALSE], calls |-> 0]

Put(k, fd, rec) == [k EXCEPT ![fd] = rec]
\* close: the peer sees the end of the stream, or a reset if something was left unread;
\* connections still in the queue are reset.
Closed(k, fd) ==
    LET hit == {k[fd].peer} \cup {k[q].peer : q \in ToSet(k[fd].queue)}
    IN  [e \in DOMAIN k |->
           IF e = fd THEN [Fresh(k[e].domain) EXCEPT !.open = FALSE, !.state = "closed", !.peer = k[e].peer,
                             !.sent = k[e].sent, !.given = k[e].given]
           ELSE IF e \in hit THEN [k[e] EXCEPT !.eof = TRUE, !.reset = @ \/ k[fd].in # << >> \/ k[fd].queue # << >>]
           ELSE k[e]]

----------------------------------------------------------------------------
(* Handles *)

WinStartup == /\ plat = "win32" /\ ~started /\ started' = TRUE
              /\ UNCHANGED <<plat, sock, kern, asked, killed>>
\* vlSocketShutdownLibrary, once every socket is gone
WinCleanup == /\ plat = "win32" /\ started /\ started' = FALSE
              /\ \A h \in Handles : sock[h] = NoSocket
              /\ UNCHANGED <<plat, sock, kern, asked, killed>>

\* The handle is allocated after the descriptor, which is closed if that fails.
Adopted(k, fd, h, rec, allocated) ==
    /\ kern' = IF allocated THEN k ELSE Closed(k, fd)
    /\ sock' = IF allocated THEN [sock EXCEPT ![h] = rec] ELSE sock

New(h, domain, allocated) ==
    /\ h # "accepted" /\ sock[h] = NoSocket /\ ~killed /\ Room
    /\ Adopted(Append(kern, Fresh(domain)), Len(kern) + 1, h,
               [NoSocket EXCEPT !.fd = Len(kern) + 1, !.domain = domain], allocated)
    /\ UNCHANGED <<plat, started, asked, killed>>
PosixNew(h, domain, allocated) == plat = "posix" /\ New(h, domain, allocated)
WinNew(h, domain, allocated) == plat = "win32" /\ started /\ New(h, domain, allocated)

Delete(h) ==
    /\ Live(h) /\ kern' = Closed(kern, sock[h].fd) /\ sock' = [sock EXCEPT ![h] = NoSocket]
    /\ asked' = IF h = "client" THEN [asked EXCEPT !.value = [o \in OptionNames |-> FALSE]] ELSE asked
    /\ UNCHANGED <<plat, started, killed>>
PosixDelete(h) == plat = "posix" /\ Delete(h)
WinDelete(h) == plat = "win32" /\ Delete(h)

\* A call that only changes the system's socket of one handle.
KernelOnly(h, rec) ==
    kern' = Put(kern, sock[h].fd, rec) /\ UNCHANGED <<plat, started, sock, asked, killed>>

\* bind refuses an address of another family; port 0 would let the system choose.
Bind(h, addr) ==
    /\ Live(h) /\ K(h).state = "new" /\ addr.domain = K(h).domain
    /\ \A e \in DOMAIN kern : kern[e].open => kern[e].local # ToNative(addr)
    /\ KernelOnly(h, [K(h) EXCEPT !.state = "bound", !.local = ToNative(addr), !.given = addr])
PosixBind(h, addr) == plat = "posix" /\ Bind(h, addr)
WinBind(h, addr) == plat = "win32" /\ Bind(h, addr)

Listen(h) == Live(h) /\ K(h).state = "bound" /\ KernelOnly(h, [K(h) EXCEPT !.state = "listening"])
PosixListen(h) == plat = "posix" /\ Listen(h)
WinListen(h) == plat = "win32" /\ Listen(h)

\* The connection stands when the listener's queue has it; without a listener
\* there is an error.  A client that is not bound gets a port of the system's.
Connect(h, addr) ==
    /\ Live(h) /\ K(h).state \in {"new", "bound"} /\ Room
    /\ \E l \in DOMAIN kern :
         /\ kern[l].state = "listening" /\ kern[l].local = ToNative(addr) /\ kern[l].domain = K(h).domain
         /\ LET n == Len(kern) + 1
                chosen == IF K(h).state = "bound" THEN K(h).given ELSE [domain |-> K(h).domain, port |-> <<9, 8>>]
                local == ToNative(chosen)
                other == [Fresh(K(h).domain) EXCEPT !.state = "connected", !.open = FALSE, !.peer = sock[h].fd,
                             !.local = kern[l].local, !.given = kern[l].given, !.remote = local]
                own == [K(h) EXCEPT !.state = "connected", !.peer = n, !.local = local, !.given = chosen, !.remote = kern[l].local]
            IN  kern' = Append([kern EXCEPT ![l].queue = Append(@, n), ![sock[h].fd] = own], other)
    /\ UNCHANGED <<plat, started, sock, asked, killed>>
PosixConnect(h, addr) == plat = "posix" /\ Connect(h, addr)
WinConnect(h, addr) == plat = "win32" /\ Connect(h, addr)

\* The record takes the listener's mode.  The accepted descriptor has it only
\* under Winsock: accept on Linux starts a blocking one.
Accept(h, allocated, inherits) ==
    /\ Live(h) /\ sock["accepted"] = NoSocket /\ K(h).queue # << >>
    /\ LET fd == Head(K(h).queue)
           mode == inherits /\ K(h).nonblock
           k == [kern EXCEPT ![sock[h].fd].queue = Tail(@), ![fd].open = TRUE, ![fd].nonblock = mode]
       IN  Adopted(k, fd, "accepted",
             [fd |-> fd, domain |-> sock[h].domain, blocking |-> sock[h].blocking,
              inherited |-> ~inherits /\ K(h).nonblock], allocated)
    /\ UNCHANGED <<plat, started, asked, killed>>
PosixAccept(h, allocated) == plat = "posix" /\ Accept(h, allocated, FALSE)
WinAccept(h, allocated) == plat = "win32" /\ Accept(h, allocated, TRUE)

----------------------------------------------------------------------------
(* Bytes *)

\* send may take less than it is offered.  With the reading side gone it is an error,
\* for which POSIX raises SIGPIPE: the flags are 0.
Send(h, n) ==
    /\ Live(h) /\ K(h).state = "connected"
    /\ IF K(h).reset \/ K(h).shutW
       THEN killed' = (plat = "posix") /\ UNCHANGED kern
       ELSE /\ n <= MaxBytes - K(h).sent /\ UNCHANGED killed
            /\ LET fd == sock[h].fd
                   p == K(h).peer
                   gone == kern[p].state = "closed"
                   bytes == [i \in 1..n |-> K(h).sent + i]
               IN  kern' = IF gone THEN [kern EXCEPT ![fd].sent = @ + n, ![fd].reset = TRUE]
                           ELSE [kern EXCEPT ![fd].sent = @ + n, ![p].in = @ \o bytes]
    /\ UNCHANGED <<plat, started, sock, asked>>
PosixSend(h, n) == plat = "posix" /\ Send(h, n)
WinSend(h, n) == plat = "win32" /\ Send(h, n)

\* recv: what is there, up to the length; 0 at the end; -1, with nothing changed, after a
\* reset or when a descriptor that does not block has nothing yet.
Receive(h, n) ==
    /\ Live(h) /\ K(h).state = "connected" /\ ~K(h).reset
    /\ LET m == IF n < Len(K(h).in) THEN n ELSE Len(K(h).in)
       IN  /\ m > 0 \/ K(h).eof \/ K(h).shutR
           /\ KernelOnly(h, [K(h) EXCEPT !.in = SubSeq(@, m + 1, Len(@)), !.got = @ + m, !.ended = m = 0])
PosixReceive(h, n) == plat = "posix" /\ Receive(h, n)
WinReceive(h, n) == plat = "win32" /\ Receive(h, n)

Shutdown(h, how) ==
    /\ Live(h) /\ K(h).state = "connected"
    /\ kern' = [kern EXCEPT ![sock[h].fd].shutR = @ \/ how # "SEND", ![sock[h].fd].shutW = @ \/ how # "RECEIVE",
                            ![K(h).peer].eof = @ \/ how # "RECEIVE"]
    /\ UNCHANGED <<plat, started, sock, asked, killed>>
PosixShutdown(h, how) == plat = "posix" /\ Shutdown(h, how)
WinShutdown(h, how) == plat = "win32" /\ Shutdown(h, how)

----------------------------------------------------------------------------
(* Modes, options, addresses *)

SetBlocking(h, blocking) ==
    /\ Live(h) /\ Spare /\ asked' = [asked EXCEPT !.calls = @ + 1]
    /\ sock' = [sock EXCEPT ![h].blocking = blocking, ![h].inherited = FALSE]
    /\ kern' = [kern EXCEPT ![sock[h].fd].nonblock = ~blocking]
    /\ UNCHANGED <<plat, started, killed>>
PosixSetBlocking(h, blocking) == plat = "posix" /\ SetBlocking(h, blocking)
WinSetBlocking(h, blocking) == plat = "win32" /\ SetBlocking(h, blocking)

\* vlSocketSetReuseAddress, vlSocketSetNoDelay, vlSocketSetKeepAlive on a new client
SetOption(o, enabled) ==
    /\ Live("client") /\ K("client").state = "new" /\ Spare
    /\ kern' = [kern EXCEPT ![sock["client"].fd].opts[o] = enabled]
    /\ asked' = [asked EXCEPT !.value[o] = enabled, !.calls = @ + 1]
    /\ UNCHANGED <<plat, started, sock, killed>>
PosixSetOption(o, enabled) == plat = "posix" /\ SetOption(o, enabled)
WinSetOption(o, enabled) == plat = "win32" /\ SetOption(o, enabled)

\* vlSocketGetReuseAddress, vlSocketGetNoDelay, vlSocketGetKeepAlive
PosixGetOption(o) == K("client").opts[o]
WinGetOption(o) == K("client").opts[o]

\* vlSocketGetLocalAddress, vlSocketGetRemoteAddress
PosixLocal(h) == FromNative(K(h).local)
PosixRemote(h) == FromNative(K(h).remote)
WinLocal(h) == FromNative(K(h).local)
WinRemote(h) == FromNative(K(h).remote)

Addresses == [domain : Domains, port : Ports]
SocketsNext ==
    \/ WinStartup \/ WinCleanup
    \/ \E h \in Handles :
         \/ \E domain \in Domains, allocated \in BOOLEAN :
              PosixNew(h, domain, allocated) \/ WinNew(h, domain, allocated)
         \/ PosixDelete(h) \/ WinDelete(h) \/ PosixListen(h) \/ WinListen(h)
         \/ \E addr \in Addresses :
              \/ PosixBind(h, addr) \/ WinBind(h, addr) \/ PosixConnect(h, addr) \/ WinConnect(h, addr)
         \/ \E allocated \in BOOLEAN : PosixAccept(h, allocated) \/ WinAccept(h, allocated)
         \/ \E n \in 1..MaxBytes : PosixSend(h, n) \/ WinSend(h, n) \/ PosixReceive(h, n) \/ WinReceive(h, n)
         \/ \E how \in {"RECEIVE", "SEND", "BOTH"} : PosixShutdown(h, how) \/ WinShutdown(h, how)
         \/ \E blocking \in BOOLEAN : PosixSetBlocking(h, blocking) \/ WinSetBlocking(h, blocking)
    \/ \E o \in OptionNames, enabled \in BOOLEAN : PosixSetOption(o, enabled) \/ WinSetOption(o, enabled)

----------------------------------------------------------------------------

\* Every open descriptor has one handle and every handle an open descriptor, whatever
\* allocation failed; the mode a handle reports is the descriptor's, except for what
\* accept on POSIX took over from a listener that does not block.
HandlesMatch ==
    /\ \A h \in Handles : sock[h] # NoSocket => K(h).open
    /\ \A e \in DOMAIN kern : kern[e].open => Cardinality({h \in Handles : sock[h].fd = e}) = 1
    /\ \A h \in Handles : sock[h] # NoSocket /\ ~sock[h].inherited => sock[h].blocking = ~K(h).nonblock

\* A receiver that was told the end of the stream has shut down reading itself, or has
\* every byte the sender's calls reported as sent, and the sender can send no more.
StreamEnds ==
    \A h \in Handles :
        LET p == kern[K(h).peer]
        IN  sock[h] # NoSocket /\ K(h).state = "connected" /\ K(h).ended =>
              K(h).shutR \/ (K(h).got = p.sent /\ (p.shutW \/ p.state = "closed"))

\* An address read back through a handle, at either end, is the one that was bound there,
\* and an option reads as it was last set.
Told(h) == IF plat = "posix" THEN <<PosixLocal(h), PosixRemote(h)>> ELSE <<WinLocal(h), WinRemote(h)>>
AddressesKept ==
    /\ \A h \in Handles :
         sock[h] # NoSocket /\ K(h).state = "connected" => Told(h) = <<K(h).given, kern[K(h).peer].given>>
    /\ sock["client"] # NoSocket =>
         \A o \in OptionNames :
            asked.value[o] = IF plat = "posix" THEN PosixGetOption(o) ELSE WinGetOption(o)

SocketsSound == HandlesMatch /\ StreamEnds /\ AddressesKept

\* As the header says (vl_socket.h:527), what vlSocketIsBlocking tells
\* is how the socket behaves.
BlockingTold == \A h \in Handles : sock[h] # NoSocket => sock[h].blocking = ~K(h).nonblock

\* vlSocketSend answers with -1 when the system's send fails.
SendReturns == ~killed

\* What makes SocketsSound inductive.  Of the system's sockets k: types; an end that was
\* never connected has carried nothing; what a queue holds waits once, unopened; an end
\* and its peer agree on their bytes, addresses and the end of the stream.
Numbers == Nat \X Nat
Address == [domain : Domains \cup {"none"}, port : Numbers]
End == [state : {"new", "bound", "listening", "connected", "closed"}, domain : Domains,
        local : Address, remote : Address, given : Address, nonblock : BOOLEAN, open : BOOLEAN,
        peer : Nat, queue : Seq(Nat), in : Seq(Nat), eof : BOOLEAN, reset : BOOLEAN, sent : Nat,
        got : Nat, ended : BOOLEAN, shutR : BOOLEAN, shutW : BOOLEAN, opts : [OptionNames -> BOOLEAN]]
UnusedInv(k) ==
    \A e \in DOMAIN k :
        /\ k[e].state \in {"new", "bound", "listening"} =>
             k[e].peer = 0 /\ k[e].in = << >> /\ k[e].got = 0 /\ k[e].sent = 0 /\ ~k[e].eof /\ ~k[e].ended
        /\ k[e].state \in {"bound", "listening"} => k[e].local = ToNative(k[e].given)
        /\ k[e].state # "listening" => k[e].queue = << >>
        /\ k[e].state = "closed" => ~k[e].open
QueueInv(k) ==
    /\ \A l \in DOMAIN k : \A i \in DOMAIN k[l].queue :
         LET q == k[l].queue[i] IN q \in DOMAIN k /\ k[q].state = "connected" /\ ~k[q].open
    /\ \A l, m \in DOMAIN k : \A i \in DOMAIN k[l].queue, j \in DOMAIN k[m].queue :
         k[l].queue[i] = k[m].queue[j] => l = m /\ i = j
PeerInv(k) ==
    \A e \in DOMAIN k :
        LET p == k[e].peer
        IN  k[e].state = "connected" =>
              /\ p \in DOMAIN k \ {e} /\ k[p].peer = e /\ k[p].state \in {"connected", "closed"}
              /\ k[e].local = ToNative(k[e].given) /\ k[e].remote = ToNative(k[p].given)
              /\ k[e].got + Len(k[e].in) = k[p].sent
              /\ k[e].eof => k[e].reset \/ k[p].shutW \/ k[p].state = "closed"
              /\ k[e].ended => k[e].shutR \/ (k[e].in = << >> /\ (k[p].shutW \/ k[p].state = "closed"))
KernInv(k) == k \in Seq(End) /\ UnusedInv(k) /\ QueueInv(k) /\ PeerInv(k)

\* Of the handles s over the sockets k: a descriptor that is open is one handle's.
Record == [fd : Nat, domain : Domains \cup {"none"}, blocking : BOOLEAN, inherited : BOOLEAN]
HandleInv(s, k) ==
    /\ s \in [Handles -> Record]
    /\ \A h \in Handles :
         IF s[h].fd = 0 THEN s[h] = NoSocket
         ELSE /\ s[h].fd \in DOMAIN k /\ k[s[h].fd].open
              /\ s[h].inherited => h = "accepted"
              /\ s[h].inherited \/ s[h].blocking = ~k[s[h].fd].nonblock
    /\ \A g, h \in Handles : s[g].fd = s[h].fd /\ s[g].fd # 0 => g = h
    /\ \A e \in DOMAIN k : k[e].open => \E h \in Handles : s[h].fd = e
\* Of what was asked, a, for the client.
AskedInv(a, s, k) ==
    /\ a \in [value : [OptionNames -> BOOLEAN], calls : Nat]
    /\ a.value = IF s["client"].fd = 0 THEN [o \in OptionNames |-> FALSE] ELSE k[s["client"].fd].opts
SocketsInv == KernInv(kern) /\ HandleInv(sock, kern) /\ AskedInv(asked, sock, kern)

============================================================================
