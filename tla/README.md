# S-VPN in TLA+

S-VPN is a small layer-3 VPN over UDP. A server and its clients each have a
tunnel device. A client encrypts what the kernel routes to its device and sends
it to the server. The server decrypts it and writes it to its own device; it
sends what the kernel routes to that device to the client whose number is the
last byte of the packet's destination. "Encryption" is one byte substitution per
user, made from the MD5 of the password; it also makes every IPv4 packet of a
user start with the user's number, which is how the server knows whom a datagram
is from. There is no handshake, no keep-alive and no acknowledgement: the server
learns a client's address from every datagram that passes its test.

This directory models that program: TLA+ modules, configurations for TLC, and
proofs for TLAPS. Paths such as `src/server/svpn_server.c` are relative to the
root of the repository.

- [Inventory](#inventory)
- [Modules](#modules-and-the-code)
- [Runs](#runs)
- [Fairness](#fairness)
- [Proofs](#proofs)
- [What disagrees with the documentation](#what-disagrees-with-the-documentation)
- [Not modelled](#not-modelled)
- [Plan](#plan)

## Inventory

| Component | State | Operations | What is hard | What makes it correct |
|---|---|---|---|---|
| Byte tables (`src/lib/crypt.c`, `include/crypt.h`) | `encode`, `decode`; in the builder the digest and counters | `BuildTable`, `Encrypt`, `Decrypt` | in-place arithmetic with cut carries; a search whose miss would write outside of the table; memory that is not cleared | the tables are permutations, undo each other, and name the user |
| Server loop (`src/server/svpn_server.c`, 138-256) | for each user the address last heard from; two packet buffers; what `select` reported | turn of the loop: socket branch, then tunnel branch; signal | delayed datagrams, datagrams under other tables, addresses that change owner, `continue` between the branches, restarts without memory | addresses are those of the user's devices; what is sent is sealed for the user; addresses settle; the tunnel is served |
| Client loop (`src/client/svpn_client.c`) | the server's address, tables, buffers | turn of the loop: tunnel branch, then socket branch; signal | a host that moves, an address taken over from another client | what is written to the device is what the server was given for this user, but for garbage that passes a test of half a byte at an address two users have had |
| Statistics (`svpn_server.c`, 31-47, 93-136) | totals, last report, speeds, log | count a packet, report, log | 32-bit intervals, two reports in one turn, log lines only in even seconds | the log accounts for every byte, the status line is recent, speeds make sense |
| Server configuration (`svpn_server.c`, 258-298, 334-378) | port, address, table of users | two readings of one file | values on later lines, the buffer of `fgets`, 16-bit ports, numbers outside of the table | tidy files are read as their lines say, users are never replaced |
| Starting (`svpn_fd.c` of both, both `main`s, the two `init`s) | socket, device, device configuration | bind, open the device, three `ifconfig` commands | several programs on one host, commands that fail | a program in its loop has a device that is set up |
| MD5 (`src/lib/md5.c`) | context | `MD5Init/Update/Final`, `MD5Transform`, `MD5Fast` | buffering, carry of the bit count, 64 lines with a word, a distance and a constant of their own | the digest is that of RFC 1321, however the input is cut |
| Printing (`src/lib/util.c`) | none | `mprintf` | nothing | - |
| Legacy Linux and OS X clients (`old-code/old/linux`, `osx`) | thread flags, signal action | start, stop and wait for each of two threads; release | lost wake-ups, use after release | stopping stops, nothing runs after release |
| Legacy Windows client (`old-code/old/win32`) | overlapped reads of socket and device, their events and buffers, the address to send to | begin and end of a read on both sides, write, send | reads that complete at any time into buffers that are in use, events that are set by system and program, a read that is never begun again, results nobody looks at | what comes in is handed on once and in order, both sides are served, the client finds back to its server |
| Unfinished server (`old-code/server`) | table of clients | add, remove, match | it does not compile | - |
| Android skeleton, miniLZO, build files | | | | - |

The parts interact as follows. Server and client call `BuildTable` once for each
user and then only look bytes up. The two loops share nothing but the network.
Each process is single-threaded; the interleavings are those of processes, of
the kernel filling tunnel devices, of signals, and of datagrams. Programs on one
host share its ports and tunnel devices. The statistics read the clock and the
lengths of packets, and nothing reads them.

The hazards that follow, each at its line, are listed in `PROJECT.json` with the
properties that would show them going wrong.

## Modules and the code

```
Substitution <--refines-- CodeTable        Tables
                          |                  |
                          MCCodeTable        Wire
                          CodeTableProofs   /    \
                                       Server    Client
                                            \    /
                     TunnelService <-refines- Vpn
                                             |   \
                                          MCVpn  VpnProofs

MCCodeTable   Md5Stream   Md5Digest
          \       |       /
              MCLibrary

Md5Stream -- Md5StreamProofs

ServerConfig -- MCServerConfig      Host -- MCHost
           \-- ServerConfigProofs       \-- HostProofs

Stats -- StatsProofs
LegacyThreads -- LegacyThreadsProofs
Win32Client -- Win32ClientProofs
```

**CodeTable** is `BuildTable`, one action per turn of its loops: `Stir` is a turn
of the inner loop (multiply one byte of the digest, carry into the next),
`Shuffle` the exchange after it, `FixIdentity` the search for the user number
and the exchange with `IP_MAGIC_HEADER`, `Invert` a turn of the last loop.
Sizes (256 bytes, 16 bytes of digest) and the prime are constants. `decode`
starts with anything in `Leftover`: the server's nodes come from `malloc`.
**Substitution** is what it promises: one step that yields a pair of tables from
`TablesFor(owner)`.

**Tables** says which pairs of tables a user can have (`TablesFor`), and reduces
a packet to what the programs look at: first byte, the first three bytes of the
source address (taken as one), the last byte of source and destination.
`Encrypt` and `Decrypt` apply a table to each of these.

**Wire** has the users, clients, addresses and datagrams, and what UDP does to
them. `net` is a set, so datagrams overtake each other. `Send` may lose the
datagram: a datagram that is lost later behaves like one that never got under
way. `Arrive` hands a datagram to a socket, and leaves a copy if `MayDuplicate`.
`Accepts` is the server's test, lines 188 to 205.

**Server** is `svpn_server_handle_thread`. `ServerSelectSock` and
`ServerSelectTun` are the returns of `select` (a datagram that is reported is the
one `recvfrom` then returns, since the buffer of a UDP socket is first in, first
out; Linux checks its sum before it reports it). `ServerAccept` and
`ServerReject` are the two outcomes of the socket branch: decrypt, test, learn
the address, write to the tunnel; or `continue`, which ends the turn. `ServerTun`
is the tunnel branch. `ServerSignal` is SIGUSR1, whose handler only prints: it
ends the process if `select` is waiting. `ServerStart` is a new process; its
nodes hold `NoAddr`, an address that was never written and to which `sendto`
leads nowhere. A process that is killed in the middle of a turn has lost the
datagram it had, which is a datagram that was lost and then a signal in
`select`, and is not modelled separately. The test by `memcmp` before the copy
of the address (207) has the effect of the assignment.

**Client** is `svpn_handle_thread`, in the order of its branches: tunnel, then
socket. `Move` gives the client's host another address, which a different
client may have had. What the old socket buffer held then counts as still under
way or lost.

**Vpn** composes them. `TunnelService` is its abstract specification: packets
are taken, may be lost, overtake each other or come twice, and what comes out at
an end was taken at the other for the same user. The refinement says that a
packet is in transit while some datagram under way is its encryption with the
user's tables (`Transit`), and that what a device with the user's tables, or the
server, has last written is delivered (`Delivered`). The client judges what it
decrypts by half a byte (`svpn_client.c:92`). A datagram for another user who has
had its address decrypts to garbage, which passes for some pairs of tables (one in
sixteen if they were random) and is written to the device. The service has a step
for this, `Misdeliver`, which says when it can happen and what comes out: only
where both users have been at one address (`Shared`), and only the very packet
the wrong tables make of the right one (`Misread`). The server's test compares
four bytes, and nothing of the kind is allowed there.

**Stats** is `output_info` with its callers. `total`, `last` and `speed` are
functions from the two directions. `tval` and the speeds are ints and wrap.
`Crash` is where the code divides by 0 or prints to a log it could not open.

**ServerConfig** reads a file, a sequence of words and line ends, as
`svpn_server_init` and `svpn_server_init_client` do: `Scan` is what `fscanf`
skips, `SkipLine` the `fgets` at the label `skipline`. There is one action for
each branch of the two loops. `inet_addr` of a file that ends after `local` gets
the keyword itself, as in the code. The process is "wild" once it has used an
index outside of `clients[256]`; what happens then is not defined.

**Host** starts and ends programs on one host. A program binds its port
(`ServerBind`, `ClientBind`), gets the first free device (`ServerOpenTun`,
`ClientOpenTun`), runs its commands and is in its
loop. The server names its own device and looks at the exit status, and returns
it as a descriptor when it is positive (`ServerCommandFails`); the client names
`tun0` and does not look (`ClientCommand`). `Exit` is every failing step and
every signal.

**Md5Stream** is the context of `MD5Update` and `MD5Final` with `MD5Transform`
replaced by the sequence of the blocks it is given (`hashed`): the digest is a
function of that. Bytes carry where they come from, so that a lost, repeated or
stale byte shows. A block has `Block` bytes and a word of `count` `Word` values,
of which 8 times the block is a divisor, as 512 is of 2^32. The two words of the
length are one byte each in the model, so the 56 of the code is `Block - 2`.

**Md5Digest** is what Md5Stream leaves out: `MD5Transform`, an action for each
line (`Line`) with the word, the distance and the constant that line has in the
source, and `MD5Encode` and `MD5Decode`. A word is the set of its bits that are
set, so that `F` to `I` are set operations, `ROTATE_LEFT` renames bits and `Plus`
is addition with its carries, cut at 32 bits.

**MCLibrary** runs the routines of `src/lib` one after the other; they share
nothing.

**LegacyThreads** is `old-code/old/linux/svpn_client.c`: its receiving and its
sending thread (`Test`, `Enter`, `Packet`, `Handle`, the same for both), the
calls `svpn_start_*`, `svpn_stop_*` (the flag in `Stop`, the signal in `Kill`),
`svpn_wait_*` (`Wait`, `Joined`) and `svpn_release`, whose steps the threads run
in between. SIGUSR1 is pending until `TakeSignal`; it makes a blocked call fail,
which ends the thread, and has no effect otherwise. `Disturb` is the same signal
from elsewhere. `waits`, which never changes, is the caller's side: whether it
waits for a thread it stopped before it starts another or releases the client.
No line of the code has this rule; with `waits` FALSE the calls come in any
order. `pthread_create` is taken to succeed. The program's own `main` uses
neither thread (the calls are there, commented out) but the one that handles
both directions, which is the loop of Client; so the module is about the
functions as `svpn_client.h` offers them.

**Win32Client** is the thread of the legacy Windows client, `Client::SendCycle`,
with the two overlapped reads it waits for. `req` is where a read is: `Fills` and
`Completes` put what has come into the inner buffer of its side, and the sender
of a datagram into `peer`, the same `ServerAddr` that `SendEncrypt` sends to.
`signalled` has the events: `Wait` takes the socket's first, and resets only that
of the device. Where the sources are not what one would think, the module
follows them:

- `WSARecvFrom` returns 0 for a datagram that is there at once, so `AtOnce`, the
  test for a positive number, never holds, and `readState` of the socket is 0
  for ever. Only this keeps line 226 of `comm.cpp`, which would copy the
  ciphertext over the plaintext, from being reached (`WritesPlain`).
- The result of ending a read is ignored: after one that has failed, the packet
  in `held` is handled again, and if there is none, memory that was never
  written (`again`, `Unfilled`, "undefined").
- A read whose beginning is refused is never begun again.
- `bind` is not checked (`Connect`), nor is `Initialize`, after which the thread
  starts with a deleted object (`OpenDriver` to "undefined").

A write is taken to be over when `WriteFile` returns: its `OVERLAPPED` and its
buffer are on the stack, and nothing waits for it.

Every definition that stands for code, with the lines it stands for, is in the
"map" of `PROJECT.json`. Operators marked `\* mutant of` are plausible mistakes
in a definition, one for each property: with the definition replaced by its
mutant, TLC finds the property violated. They are not part of any specification.

## Runs

All of them finish; the figures are distinct states.

| Run | Checks | Instance | States |
|---|---|---|---|
| library | `TypeOK` `Permutes` `SearchHits` `RoundTrip` `NamesUser` `Returns` `FillsTables` `HashesPadded` `DigestsRight` | tables: 4 byte values, 3-byte digests, all 64 digests, all 4 numbers; blocks of 4 bytes, words of 16 values, up to 140 bytes; six messages of the suite of RFC 1321 | 15,000 |
| two_users | `TypeOK` `NetSealed` `StaysSure` `CarriesPackets` | two users, three addresses, one datagram under way | 301,000 |
| wrong_password | `AddrOfOwner` `CarriesPackets` | a user, a client with the same number and another password, duplication | 241,000 |
| settles | `NeverStuck` `Converges` `TunServed` `Reaches` | one client, two addresses, one datagram under way between two addresses | 46,000 |
| config | `TypeOK` `ReadsTidy` `KeepsUsers` `Finishes` | some 11,000 files | 55,000 |
| config_ids | `DocumentedIds` (violated) | the same files | |
| host | `TypeOK` `ServerKeepsDevice` `ClientKeepsTun0` | a server, two clients, another program, three devices, commands that can fail | 12,000 |
| host_server_tunnel | `ServerHasTunnel` (violated) | as host | |
| host_client_tunnel | `ClientHasTunnel` (violated) | as host, with commands that work | |
| stats | `LogAccounts` `StatusRecent` `NoZeroInterval` `SpeedsSane` | int of 64 values | 204,000 |
| legacy_threads | `QuietRelease` `Survives` `OneMore` `StopStops` | three threads, a caller that waits and one that does as it likes | 453,000 |
| win32_client | `HandsOnNext` `EndsWhatIsOver` `WritesPlain` `Listens` `BothServed` `Follows` | two senders, three numbers, one packet and one datagram that wait | 150,000 |

**library.** `Returns` uses weak fairness of the one process. With 4 values
and 3 limbs the carries wrap, the swaps hit equal and different indices, and the
number is found at, before and behind `Magic`. The proofs cover all sizes. The
pieces `MD5Update` gets are empty, less than a block, a block, more than one,
more than two, and one whose bits do not fit in a word; 140 bytes go twice over a
carry into the high word. Every message length up to 140 is finished, so every
position in the last block is padded. `DigestsRight` is not a small instance of
anything: the six messages go through the 64 lines with words of 32 bits, and a
slip in one line changes all of their digests. The run is the three routines one
after the other, and only one of the pairs of tables goes on to MD5 (`OneUser`),
so that their states add up and do not multiply.

**two_users.** `MCVpn` has seven byte values: prefix, two users, the server's own
number, the first bytes of an IPv4 packet with and without options, and that of
any other packet. Packets go to the server, to the other user, have a first byte
that is not IPv4 and that the first user's table sends to the second user's
number, and so on. The tables of the second user make a packet with options of
one for the first, so that a datagram which reaches the wrong device can pass its
test and be written (`Misdeliver`). Three addresses and two changes of address
(`FewMoves`) are enough for a client to come to an address the other has left
while a datagram is under way to it; a constraint keeps one datagram in `net`,
besides the one each process has read. Addresses are symmetric. `StaysSure` is
about late datagrams: while the only device of a user stays where it is, nothing
new can mislead the server about it (`Stale`), and once it knows the address with
nothing of the kind ahead (`Sure`), it keeps it until it is started again.

**wrong_password.** The same with client `w`, which has number 1 and another
password, up to two datagrams under way, and duplicates. `w` writes garbage to
its own device, because the tables of every client with number 1 send 1 to
`Magic`; `Delivered` counts ends with the user's tables only, and this is said
there. The server never learns `w`'s address.

**settles.** Liveness under `FairSpec`. The client moves, the server and the
client end and start again. `MaxNet` is 1: a datagram is never kept from getting
under way but by another between the same two addresses, and fairness has that
one arrive in the end. The client has two kinds of packet. `NeverStuck` is about
the steps fairness speaks of: wherever the code's guards hold they can be taken,
so that no process waits for another party, and what it says are the hypotheses
of the proofs about liveness. `Converges`: if the client and the server run and
the client stays, the server comes to know and keeps its address. It needs that
datagrams do not come twice for ever (`MayDuplicate` is FALSE: an old one could
be repeated for ever) and that no other device has the same number and password
(`Alone`); two devices with one number move the address back and forth, which is
how the program works. `TunServed` and `Reaches` need `Undisturbed`, since the
server's `continue` lets a stream of rejected datagrams keep the tunnel waiting
for ever: here the client's own, when its kernel routes to the tunnel what is
not IPv4 and the client encrypts and sends it all the same. `Converges` holds
all the same.

**config.** A file has up to three lines out of 17 kinds, complete and
incomplete, or a port, an address and up to two such lines, with or without a
last line end; `fgets` takes four tokens, so that
some lines are longer; a port has 8 values, so that some are cut to 0; some
numbers are outside of the slots. `ReadsTidy` compares with a reading by lines,
written independently (`SaidPort`, `SaidLocal`, `SaidClients`). Of files that are
not tidy it says nothing: no document says what they mean, and for these there are
`TypeOK`, `KeepsUsers` and `Finishes`.

**host.** Two clients have the same port, as in the code, so one of
them is always refused or late; three devices for four programs. A server whose
`tun_fd` is its device has it set up, up to the address a client has given
`tun0`: that is the most that holds, and `ServerKeepsDevice` says so. A
client whose commands have failed does not notice, so `ClientKeepsTun0` speaks of
those whose commands have worked, which `failed` remembers.

**stats.** An int has 64 values, a second 4 ticks, the threshold 3 bytes or 8
ticks. The clock's steps are below the threshold, above it, more than half an
int, and a whole int. `NoZeroInterval` says that the division by the interval,
which is cut to an int, is one by 0 only after a whole range of the ints: never
because both branches of a turn, which see one time, make a report. It rests on
a packet being smaller than `OPT_TH`, which `PacketAssumption` states (4096
bytes and a megabyte). `SpeedsSane` speaks of reports that come before half an
int has gone by, and of rates that fit in an int (2 GB/s): there the speed that
is shown is the exact quotient. `StatusRecent` bounds the bytes the status line
has not shown, and says nothing of how much time has gone by. Between two turns
the clock goes forward by at least a tick: `gettimeofday` may return the same
time twice or, when somebody sets it, an earlier one, and this the model assumes
away (`Gaps`).

**legacy_threads.** Three threads are enough for two of one
direction and one of the other. With a caller that waits, nothing uses `psc` or
the descriptors when they go (`QuietRelease`) and the signal never ends the program
(`Survives`). Neither holds without waiting: `svpn_release` stops threads and
frees at once. No document promises otherwise, so this is a rule for callers here
and not a disagreement; the two say what a caller gains by it, and nothing of the
release as it is written. What holds for every caller is `OneMore`, and
`StopStops`, also of a thread that no stop can signal any more, because its
direction was started a second time and knows only the other. A signal taken
between the test of the flag and the blocking call is lost, so `StopStops` needs
one more packet to come; and it speaks of a thread whose flag stays off, since a
new start sets the flag again and freed memory may hold one that is set.

**win32_client.** The numbers of what comes in start again after three, which
with room for one tells apart what is handled, what a read has filled in, and
what waits: nothing may be left out, overwritten before it is handled, or
handled twice, except after a failure (`HandsOnNext`). Of `BothServed` the half
for the device has the premise that the event of the socket is not set again and
again: without it the property fails, since the thread always looks at the
socket first. `Follows` is about the address the client sends to, which is that
of whoever it heard from last (`comm.cpp:201`): any stray datagram leads it
astray, no document forbids this, and nothing here says that it does not happen.
The property says that the client finds back: once a datagram of the server is
the next in the socket the client sends to the server again, though reads fail
and others go on sending; and for good when only the server is left. `Listens`
and both liveness properties leave out a side whose read has been refused:
nothing in the sources makes that side read again.

Deadlock is checked except where the system stops: BuildTable, reading a file,
a digest that is finished, a client that is released, a program that has ended
or gone on into undefined behaviour, and Stats, whose totals and clock are
bounded by `Most` and `Latest`.

Bounds: `MaxNet` (datagrams under way between two addresses), `FewMoves`,
`OneUnderWay`, `TwoUnderWay` (state constraints of two runs), `Latest`, `Most`,
`Devices`, `Slots`, `Line`, `Longest`, `Thread`, `Room`, `Count`, and the sets of
packets, addresses and files.

## Fairness

`FairSpec` of Vpn assumes

- weak fairness of the server's and of each rightful client's loop: a process
  that can go on does;
- weak fairness of the kernel filling the server's tunnel device: the properties
  are about a host that keeps routing packets to it. For a client, strong
  fairness of reading its tunnel: it keeps having something to send, and `select`
  reports both descriptors, so neither branch starves the other in a client;
- strong fairness of sends that get under way and of the arrival of datagrams
  at a rightful client and at the server. Of what a rightful client sends, this is
  said apart of what the server takes and of what it rejects, and is about what
  it has sent from where it is (`UnderWay`): of each some arrives, if some is
  under way again and again. It is a network that
  loses some but not all of what is sent again and again, and does not tell one
  packet of a user from another.

Nothing is assumed of moves, signals, starts and clients with another password.
There are no retries in the code; without a client that keeps sending, a server
that was restarted never learns its address, and none of the properties claims
that it does.

`FairSpec` of LegacyThreads assumes weak fairness of each thread's loop, which
includes that a packet comes in the end for a thread that is blocked, and of a
call that has begun. Signals are not assumed to be taken at any time, and
nothing makes the caller call.

`FairSpec` of Win32Client assumes weak fairness of the thread, whose only wait is
for the two events, and strong fairness of the completion of each side's reads:
they may fail, but not for ever while there is something to read. Nothing is
assumed of what comes in.

## Proofs

The proofs hold for all values of the constants that meet the assumptions in the
modules that declare them (`CodeTable`, `Wire`, `LegacyThreads`, `Win32Client`,
`Host`, `Stats`, `ServerConfig`, `Md5Stream`). Every invariant of the runs but two
(`DigestsRight`, and `NeverStuck`, which speaks of ENABLED) is the subject of a
theorem. The inductive invariants were checked
on the instances of the runs before they were proved.

**CodeTableProofs.** The inductive invariant `IInv` has `TypeOK` and `Permutes`,
that the digest's bytes are bytes, that after the second loop the entry at
`Magic` is the number (`Fixed`), and that the last loop has inverted the entries
it has passed (`Inverted`). `Permutes` is needed for all the rest: an exchange
of two entries keeps a bijection one (`SwapBijection`), a bijection contains the
number (`SearchAlwaysHits`), and is injective, so that the last loop never
overwrites what it wrote and reaches every entry (`TablesRoundTrip`).
`ImplementsSubstitution` then shows that the last turn is the step of
`Substitution`, whose result is what `Wire` assumes of every table
(`UserAssumption`, `ClientAssumption`): this is the link between the two proofs.
`TurnsCountDown` says how long it takes: of `Size * (Digest + 2) + 1` turns each
leaves one less, and none is left only when `BuildTable` returns, whatever the
digest and the number are.

**VpnProofs.** `AddrOfOwner` is not inductive: the server may hold a datagram
whose sender is not where a user's device has been. `IInv` adds to `TypeOK` that
the datagram a process holds is addressed to it (`Heads`), that a client is at
an address it has been at (`BeenHere`), and `NetSealed`: every datagram to the
server was made by some client, from an address of this client, under its
tables; every datagram to a client was made by the server for a user, and goes
where a device of the user has been. The step of `ServerAccept` uses
`UpSeparation` to conclude that the client is rightful and that the first byte
is its number, hence `AddrOfOwner`; that of `ServerTun` uses `AddrOfOwner` to
conclude `NetSealed`. From the invariant: `TypeCorrect`, `AddressesOfOwners`,
`AlwaysSealed`, and `ImplementsTunnelService`, which goes through the actions
and shows that each is a step of `TunnelService` or a stutter. Where a client
writes a packet (`SockDelivers`), the invariant says that it was sealed for some
user whose device has been at the client's address: if that is the client's own
number, its tables give the packet back, and if not, the two users have shared
the address and the step is `Misdeliver` (`Misdelivery`). Who has shared an
address only ever grows (`SharedStays`, `SharedGrows`).

The assumption `UpSeparation` is what the scheme leaves to chance: a datagram made
with other tables does not decrypt to the right source address (four bytes have to
agree). It is part of the model and not of the code; TLC evaluates it for the
instances it runs. Of what a client makes of other users' datagrams nothing is
assumed.

Of what comes late, `StaleFades` says that no step makes anything new stale while
the client stays, since each process sends from where it is; `StaysSureOfAddresses`
is then that only what is stale can move the address (`MisheardWasStale`).
`MishearsFinitely` counts what is stale (`Ahead`): without duplicates it never
grows, and each datagram that moves the address uses some of it up.

Four theorems are about what happens in the end, under `FairSpec`.
`AlwaysTunServed` follows the turns of the server: one that has not read its
tunnel ends by `continue`, which `Undisturbed` says stops, or leaves a select for
which the kernel has filled the device. `HearsAgainAndAgain` is the long one. A
client that runs comes back to its select and reads its tunnel again and again
(`TurnsAgainAndAgain`). It can then send, unless as much as there can be is under
way from where it is; but a datagram that arrives leaves room, and when no more is
sent what is under way only gets less (`FromChanges`, `RoomStep`), so in the end
something the server takes gets under way (`SendsAgainAndAgain`). The server comes
back to its select as well (`SelectsAgainAndAgain`), is given it, and accepts it:
`Hears` is that step. Without duplicates, mishearing stops (`StopsMishearing`, from
`MishearsFinitely`), and `AlwaysConverges` puts the two together with
`ConvergesIfHeard`: what is heard after the last mishearing is kept, since only
hearing and mishearing change an address (`AddrChanges`). `AlwaysReaches` adds the
way back, from the server's tunnel to the device (`ReachesWhatItKnows`).
Their other hypotheses are said under [liveness](#liveness).

**LegacyThreadsProofs.** `OneMore` rests on `Stopped`: a thread that has handled
a packet since its stop is at the test of its flag, and the flag is off, because
starting its direction again resets the count. `QuietRelease` and `Survives`
need that the caller waits. `Known` says that a thread that lives is the one its
direction knows and has not been joined; `Waited` that a flag that is set
belongs to a thread that can be joined; `Released` that the release only goes on
when no thread can be. Together they leave no thread that lives, hence
`QuietRelease`, and none a signal could be pending for, hence `Survives`.
`Named` keeps the two directions from knowing the same thread; without it the
join of one could be that of the other. `AlwaysStopStops` is about every caller,
and follows a stopped thread while its flag is off: each step brings it nearer
to its end, and a call that waits for it returns once it has ended.

**Win32ClientProofs.** `HandsOnNext` is not inductive: it says nothing of what a
read has filled in or of what waits behind it. `Chain` does: the numbers in
`held`, `inner` and `queue` follow each other, up to `came` (`Chained`, with the
lemmas `ChainedTail` and `ChainedAppend` for what is taken and what comes).
`Idle` says that where the thread does not handle what a side brought, that is
handled; `Reads` at which places there is no read of a side, and that the events
that are set are those of reads that are over. `EndsWhatIsOver` and `Listens`
follow from `Reads`, `WritesPlain` from `Plain`, that `readState` of the socket
is never 1. None of this is claimed once behaviour is undefined.

`ReadInTheEnd` is what liveness rests on: from wherever the thread is, each of
its steps brings it nearer to the next read of the socket, a read that is
pending completes or fails, and one that is over has set its event
(`AlwaysSignals`), which the wait looks at first. For `AlwaysFollows`, the
datagram that is next in the socket stays next until it is read
(`NextStaysNext`), the read puts its sender into `peer` (`FillsFollows`), and
nothing else changes that, so that it stays the server's when only the server is
left (`FollowingStays`). `AlwaysSockServed` says that from any place in the
queue a datagram gets to the place before it, and from the first into the buffer
and through the thread's hands.

**HostProofs.** For any servers, clients, other programs, ports and devices.
`ServerKeepsDevice` speaks of a server in its loop only; `IInv` has to say what
each command that has worked has left on the device by then (`ServerSet`,
`ClientSet`), that a server past `TUNSETIFF` holds a device (`Holds`), and that
whoever is past `bind` holds its port (`Bound`). `FirstFree` says
that the device a program gets is nobody else's, `Orders` which command follows
which, and `SetConf` what one command changes. Nobody else changes a server's
device but clients that take `tun0` for theirs, which is the exception
`ServerKeepsDevice` makes.
`ClientKeepsTun0` needs `Bound`: all clients bind one port
(`ClientPortAssumption`), so no second client has come to its commands.
Two more theorems say how far the two disagreements with `README.md` go:
`ServersHaveTunnels`, that without failing commands a server in its loop has its
tunnel (`ServerHasTunnel`, which run host_server_tunnel shows violated with
them); and `ClientsAloneHaveTunnels`, that clients among themselves, without
failing commands, have theirs (`ClientHasTunnel`): the port lets one of them at a
time come to `TUNSETIFF`, and the first free device is then `tun0` (`OnlyTun0`).

**StatsProofs.** For every width of an int, every clock that goes forward and
all packets smaller than the threshold. `Times` orders the two time stamps, and
says that after a report in the first branch of a turn the status line has
everything that was counted; `Behind` orders the log, the status line and the
totals. With them `LogAccounts` and `StatusRecent` are inductive; the latter is a
bound on the bytes the status line has not shown, not on its age. From
`Times`: in the second branch after a report, less than `OPT_TH` bytes are new, so
no report is due (`NeverZeroInterval`). `WrapFacts` says what the cut to an int
does: it changes nothing below half the range, and yields 0 only for 0 below the
whole range (`SpeedsAlwaysSane`).

**ServerConfigProofs.** For every file. `ReadsTidy` speaks of the end of the
readings and compares with operators over all lines of the file; `IInv` says the
same of the lines passed so far (`PortRead`, `LocalRead`, `ClientsRead` up to a
position, which is the start of a line or the end, `AtLine`), and is only claimed
of tidy files. The lemmas `ScanFacts`, `SkipFacts`, `LineEndFacts` and
`NextLine` say where `fscanf` and `fgets` stop, so that a turn of a loop goes
from the start of one line to the start of the next (`TidyTurn`).
`AlwaysKeepsUsers` and `TypeCorrect` hold of untidy files as well. `AlwaysReadsOn`
is why reading ends: a step that does not end a reading takes it further in
a file that is finite. `ReadingCountsDown` gives the number that every step makes
less, at most `2 * EOF + 1` for the two readings; it is 0 only at the end.
`AlwaysEndsAsSaid` says which end a tidy file has by what its lines say, for which
`PassedHaveSlots` has to say that a second reading that goes on has only passed
users with a place in the table. `IdsAreWhatIsSaid` is how far the disagreement
with `README.md:57` goes: the code adds no number of its own, and refuses none.

**Md5StreamProofs.** For every size of block, byte and word of which 8 times the
block is a divisor (`WordAssumption`), and every way to cut a message.
`HashesPadded` says nothing of an open context. `IInv` adds that the context
*represents* what it has been given (`Represents`): `count` is the length in bits
in two words, the whole blocks are hashed and the rest is at the start of the
buffer. `AbsorbRepresents` is the theorem about `MD5Update` (a context that
represents t represents t followed by s after s), in the two cases of the code,
with `CopyIs` for `memcpy`. `MD5Final` then is two more calls of it. The arithmetic
is in lemmas of its own: `IndexIs`, that the low word alone says where in the
buffer the next byte goes, however often it has wrapped; `CarryIs`, that the
comparison after the low word has wrapped finds the carry; `TwoWords`, that the
two words are the length modulo their product; `PadLengthIs` and `ZerosIs`, that
`PadLength` is the only padding of at most a block that fills the last one.

The library's induction theorems take a predicate as parameter, which none of the
provers can instantiate. Where a proof needs a least element (the first free
device, the first line of a user) it takes it from `WFMin`, that a well-founded
relation has minimal elements, which is a statement about sets.

### Liveness

The temporal prover takes `WF` and `SF` apart, and needs to know when a step can be
taken. It cannot see that: ENABLED is opaque to all the provers. So the theorems
about `Converges`, `TunServed`, `Reaches`, `StopStops`, `Follows` and of
`AlwaysSockServed` have it as a hypothesis, always of the form "where the guards
of the code hold, the step can be taken": `NeverStuck` and its part `CanServe` for
Vpn, an invariant that run settles checks on the instance its liveness properties
are checked on; `CanGoOn` of LegacyThreadsProofs and of Win32ClientProofs, which
TLC found to be invariants of the instances of those runs. What the theorems add
to the runs is the argument for all numbers of users, clients, threads, packets,
addresses and places in queues.

A second thing the provers cannot do is an induction along a behaviour: that a
natural number that never grows from some time on does not change from some time
on. `AlwaysConverges` and `AlwaysReaches` have this as a hypothesis of its own,
`FallsFinitely`, about the count of stale datagrams. It is not an assumption
about the program: it is true of every behaviour of any number in `Nat`, and
only says what the prover lacks. That the count is in `Nat`, does not grow while
the client stays, and falls with each mishearing, is proved
(`MishearsFinitely`).

**Only model-checked:**

- `Returns` and `Finishes`: `TurnsCountDown` and `ReadingCountsDown` have the
  number that falls; that it reaches 0 is such an induction.
- `BothServed`: for the socket, `AlwaysSockServed` has the step from place to
  place, and the count of the places is such an induction; for the device, only
  TLC.
- `NeverStuck` and the two `CanGoOn`: the ENABLED facts.
- `DigestsRight`, which is not a statement for all values of anything but the
  computation of six digests.

Of the three properties a run shows violated, two are proved under the conditions
said above, and the third is equivalent to what a file says.

## What disagrees with the documentation

1. `README.md:57` has user numbers from 3 to 240. `svpn_server.c:354` takes any
   number (run config_ids).
2. `README.md:64` says that a tunnel will be set up. If an `ifconfig` command
   fails, `svpn_tun_create` (`src/server/svpn_fd.c:62-75`) returns its positive
   status, the caller looks for a negative one (`svpn_server.c:320`), and the
   server runs with a number that is not its device (run host_server_tunnel).
3. `README.md:34` says the same of the client. It sets up `tun0` whichever device
   it got (`main_client.c:35-40`; run host_client_tunnel).

## Not modelled

- Datagrams that are empty or shorter than an IP header, which the loops would
  judge on bytes their buffers held before. A program of this repository sends
  what it reads from its tunnel device, which is whole IP packets, so only other
  programs send such datagrams, and nothing says what is promised then.
- Destinations outside of the virtual network: the server looks at their last byte
  only. Its device is given a /24, so the kernel routes nothing else to it.
- The user arguments of the client (`main_client.c:27-37`): taken as valid.
- `mprintf`, the layout of the status line and of the log, sizes of socket buffers,
  the device's queue length: nothing depends on them.
- Packets are not modelled beyond their first byte and their addresses; the
  programs look at nothing else.
- The thread of the legacy Linux client that handles both directions
  (`svpn_handle_thread`): it is the loop of Client.
- The OS X client: its `svpn_client.c` is the Linux one but for a header of four
  bytes; the rest sets up another kind of device.
- Of the Windows client, how it finds and sets up its adapter
  (`QueryTunAdapterInfo`, `config.cpp`), which works or not (`OpenDriver`), and
  the functions nothing calls (`RecvCycle`, the variants with a `2` in their
  name, `UseCommandLineConfig`).
- The unfinished server: undeclared names, two definitions of one structure and a
  missing semicolon. It was never a program.
- The older copies of `crypt.c` and `md5.c` under `old-code`.
- miniLZO, the Android skeleton and the build files carry none of the program's
  logic. miniLZO alone, which the Windows client calls only to print how well a
  packet would compress, is more than half of the lines of C in the repository.

## Plan

Done: CodeTable, Tables, Wire, Server, Client, Vpn with TunnelService,
ServerConfig, Host, Stats, Md5Stream, Md5Digest, LegacyThreads, Win32Client; the
proofs of all invariants but `DigestsRight` and `NeverStuck`, of all action
properties, of the refinements of TunnelService and Substitution, and of
liveness as far as the section on it says.

1. The client's arguments (`main_client.c:17-37`) with their width.
2. With a prover that sees ENABLED: its facts, which are now hypotheses.
3. With induction over temporal formulas: `Returns`, `Finishes`, the socket's half
   of `BothServed`, and `FallsFinitely`, now a hypothesis.
