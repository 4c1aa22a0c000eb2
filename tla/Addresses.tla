----------------------------- MODULE Addresses -----------------------------
(***************************************************************************)
(* cppio::network::endpoint and the addresses ip::v4 and ip::v6: their     *)
(* texts, and the sockaddr_storage they are copied to and from.            *)
(*                                                                         *)
(* A text is a sequence of symbols: brackets, colons, dots, and numerals.  *)
(* A hexadecimal numeral is its value, a decimal one its value above Dec.  *)
(* Memory is a sequence of bytes, and the host is little-endian.           *)
(***************************************************************************)
EXTENDS Integers, SequencesExt

CONSTANTS
  V4Addresses, V6Addresses, \* four bytes, and eight words
  NewAddresses, \* endpoints with the arguments of set_address
  Ports,    \* the ports a program sets
  Numbers   \* what is written after an address as a port

\* What the constructors can make.
Endpoints ==
  [type : {"AF_INET"}, m_addr : V4Addresses, m_port : Ports]
  \cup [type : {"AF_INET6"}, m_addr : V6Addresses, m_port : Ports]

ASSUME AddressAssumption ==
  /\ V4Addresses \subseteq [1 .. 4 -> {n \in Nat : n <= 255}]
  /\ V6Addresses \subseteq [1 .. 8 -> {n \in Nat : n <= 65535}]
  /\ Ports \subseteq {n \in Nat : n <= 65535} /\ Numbers \subseteq Nat
  /\ NewAddresses \subseteq Endpoints

VARIABLES
  endpoint,  \* [type, m_addr, m_port]
  storage,   \* sockaddr_storage: [ss_family, port, addr] as bytes
  text,      \* a text the program has got or was given
  number     \* history: the number after it, or None

addressVars == <<endpoint, storage, text, number>>

LB == -1   RB == -2   CO == -3   DOT == -4   None == -5
Dec == 100000

-----------------------------------------------------------------------------
(* Byte order.  A v4 address is given by its bytes, most significant first. *)

swap16(x) == (x % 256) * 256 + x \div 256        \* htons and ntohs
store16(x) == <<x % 256, x \div 256>>
load16(mem, i) == mem[i] + 256 * mem[i + 1]

\* Sixteen bytes from eight pairs of them.
Bytes(pairs) == [j \in 1 .. 16 |-> pairs[(j + 1) \div 2][2 - (j % 2)]]

\* Mutant of FillV6: the words are copied as they are.
FillV6HostOrder(words) == Bytes([i \in 1 .. 8 |-> store16(words[i])])

\* v4::fill and v6::fill: htonl and a 32-bit store reverse the bytes twice.
FillV4(bytes) == Reverse(Reverse(bytes))
FillV6(words) == Bytes([i \in 1 .. 8 |-> store16(swap16(words[i]))])

\* endpoint::fill
FillStorage(e) ==
  [ss_family |-> e.type, port |-> store16(swap16(e.m_port)),
   addr |-> IF e.type = "AF_INET" THEN FillV4(e.m_addr) ELSE FillV6(e.m_addr)]

\* endpoint::endpoint(const sockaddr_storage&), v4{ntohl(..)} and v6(address)
FromStorage(s) ==
  [type |-> s.ss_family,
   m_addr |-> IF s.ss_family = "AF_INET" THEN Reverse(Reverse(s.addr))
              ELSE [i \in 1 .. 8 |-> swap16(load16(s.addr, 2 * i - 1))],
   m_port |-> swap16(load16(s.port, 1))]

-----------------------------------------------------------------------------
(* to_string                                                               *)

V4Text(b) ==
  <<Dec + b[1], DOT, Dec + b[2], DOT, Dec + b[3], DOT, Dec + b[4]>>

\* The first loop of v6::to_string: the first longest run of zeros.
LongerRun(z, i, run) ==
  IF run > z.length THEN [length |-> run, index |-> i - run + 1, run |-> run]
                    ELSE [z EXCEPT !.run = run]

ZeroRun(w) ==
  LET z[i \in 0 .. 8] ==
        IF i = 0 THEN [length |-> 0, index |-> 1, run |-> 0]
        ELSE LongerRun(z[i - 1], i, IF w[i] = 0 THEN z[i - 1].run + 1 ELSE 0)
  IN z[8]

\* Mutants of ColonAfter: the run is not looked at; a run of one counts.
ColonAlways(i, z) == i < 8
ColonAnyRun(i, z) == i < 8 /\ i + 1 # z.index

ColonAfter(i, z) == i < 8 /\ (i + 1 # z.index \/ z.length <= 1)

\* The second loop.
V6Text(w) ==
  LET z == ZeroRun(w)
      out[i \in 1 .. 9] ==
        IF i = 9 THEN <<>>
        ELSE IF i = z.index /\ z.length > 1 THEN <<CO, CO>> \o out[i + z.length]
        ELSE <<w[i]>> \o (IF ColonAfter(i, z) THEN <<CO>> ELSE <<>>) \o out[i + 1]
  IN <<LB>> \o out[1] \o <<RB>>

\* endpoint::to_string
to_string(e) ==
  (IF e.type = "AF_INET" THEN V4Text(e.m_addr) ELSE V6Text(e.m_addr))
  \o (IF e.m_port # 0 THEN <<CO, Dec + e.m_port>> ELSE <<>>)

-----------------------------------------------------------------------------
(* inet_pton and stoul, as far as the code relies on them.                 *)

BadFormat == [status |-> "BadFormat"]
Ok(a) == [status |-> "ok", addr |-> a]

\* Numerals with c between them, and which ones.
Alternates(s, c) ==
  /\ Len(s) % 2 = 1
  /\ \A i \in DOMAIN s : IF i % 2 = 1 THEN s[i] >= 0 ELSE s[i] = c
Numerals(s) == [i \in 1 .. (Len(s) + 1) \div 2 |-> s[2 * i - 1]]

PtonV4(s) ==
  IF Alternates(s, DOT) /\ Len(s) = 7 /\ \A x \in {s[1], s[3], s[5], s[7]} :
       Dec <= x /\ x <= Dec + 255
  THEN Ok([i \in 1 .. 4 |-> s[2 * i - 1] - Dec]) ELSE BadFormat

PtonV6(s) ==
  LET gaps == {i \in 1 .. Len(s) - 1 : s[i] = CO /\ s[i + 1] = CO}
      gap == CHOOSE i \in gaps : TRUE
      left == SubSeq(s, 1, gap - 1)
      right == SubSeq(s, gap + 2, Len(s))
      n == Len(Numerals(left)) + Len(Numerals(right))
  IN IF \E i \in DOMAIN s : s[i] > 65535 \/ s[i] \in {LB, RB, DOT} THEN BadFormat
     ELSE IF gaps = {} /\ Alternates(s, CO) /\ Len(s) = 15 THEN Ok(Numerals(s))
     ELSE IF /\ gaps # {} /\ (\A i, j \in gaps : i = j) /\ n < 8
             /\ \A side \in {left, right} : side = <<>> \/ Alternates(side, CO)
     THEN Ok(Numerals(left) \o [i \in 1 .. 8 - n |-> 0] \o Numerals(right))
     ELSE BadFormat

\* The first hexadecimal digit of x.
Lead(x) == CASE x < 16 -> x
             [] 16 <= x /\ x < 256 -> x \div 16
             [] 256 <= x /\ x < 4096 -> x \div 256
             [] OTHER -> x \div 4096

\* stoul stops at what is no decimal digit, and throws if that is the first
\* character.  Of four hexadecimal digits it makes at most 9999.
stoul(s) ==
  IF s = <<>> \/ s[1] < 0 THEN [status |-> "throws"]
  ELSE IF s[1] >= Dec THEN [status |-> "ok", value |-> s[1] - Dec]
  ELSE IF Lead(s[1]) >= 10 THEN [status |-> "throws"]
  ELSE [status |-> "ok", value |-> Lead(s[1])]

-----------------------------------------------------------------------------
(* parse                                                                   *)

Inner(s) == SubSeq(s, 2, Len(s) - 1)
Bracketed(s) == Len(s) > 0 /\ s[1] = LB /\ Last(s) = RB

\* v6::parse takes the address with or without brackets.
ParseV6(s) ==
  IF Len(s) < 2 THEN BadFormat
  ELSE IF Bracketed(s) /\ PtonV6(Inner(s)).status = "ok" THEN PtonV6(Inner(s))
  ELSE PtonV6(s)

Made(type, r, port) ==
  [status |-> "ok",
   endpoint |-> [type |-> type, m_addr |-> r.addr, m_port |-> port % 65536]]

\* Mutant of PortFits: any number is a port.
AnyPort(n) == TRUE

PortFits(n) == n <= 65535

\* Mutant of ParseWhole: only a v4 address can do without a port.
ParseWholeV4(s) ==
  IF PtonV4(s).status = "ok" THEN Made("AF_INET", PtonV4(s), 0) ELSE BadFormat

\* The text without a port.
ParseWhole(s) ==
  CASE ParseV6(s).status = "ok" -> Made("AF_INET6", ParseV6(s), 0)
    [] ParseV6(s).status # "ok" /\ PtonV4(s).status = "ok" ->
         Made("AF_INET", PtonV4(s), 0)
    [] OTHER -> BadFormat

\* address.find_last_of(':'); 0 stands for npos.
LastColon(s) == SelectLastInSeq(s, LAMBDA x : x = CO)

\* endpoint::parse.  It is noexcept: when stoul throws the program ends.
parse(s) ==
  LET sep == LastColon(s)
      port == stoul(SubSeq(s, sep + 1, Len(s)))
      ip == SubSeq(s, 1, sep - 1)
      r == IF Bracketed(ip) THEN ParseV6(Inner(ip)) ELSE PtonV4(ip)
  IN IF sep = 0 \/ Last(s) = RB THEN ParseWhole(s)
     ELSE IF port.status = "throws" THEN [status |-> "terminate"]
     ELSE IF PortFits(port.value) /\ r.status = "ok"
     THEN Made(IF Bracketed(ip) THEN "AF_INET6" ELSE "AF_INET", r, port.value)
     ELSE ParseWhole(s)

-----------------------------------------------------------------------------
(* The calls of a program.                                                 *)

AddressInit ==
  /\ endpoint \in Endpoints
  /\ storage = [ss_family |-> "none"]
  /\ text = <<>> /\ number = None

set_address(a) ==
  /\ endpoint' = [a EXCEPT !.m_port = endpoint.m_port]
  /\ UNCHANGED <<storage, text, number>>

set_port(p) ==
  /\ endpoint' = [endpoint EXCEPT !.m_port = p]
  /\ UNCHANGED <<storage, text, number>>

fill ==
  /\ storage' = FillStorage(endpoint)
  /\ UNCHANGED <<endpoint, text, number>>

\* The source of a datagram, or of a connection.
FromSockaddr ==
  /\ storage.ss_family # "none"
  /\ endpoint' = FromStorage(storage)
  /\ UNCHANGED <<storage, text, number>>

GetText ==
  /\ text' = to_string(endpoint)
  /\ number' = None
  /\ UNCHANGED <<endpoint, storage>>

\* A user writes a number after the address.
AppendNumber(n) ==
  /\ endpoint.m_port = 0
  /\ text' = to_string(endpoint) \o <<CO, Dec + n>>
  /\ number' = n
  /\ UNCHANGED <<endpoint, storage>>

\* endpoint = parse(text).value(), if there is one.
ParseText ==
  /\ text # <<>>
  /\ parse(text).status = "ok"
  /\ endpoint' = parse(text).endpoint
  /\ UNCHANGED <<storage, text, number>>

AddressNext ==
  \/ \E a \in NewAddresses : set_address(a)
  \/ \E p \in Ports : set_port(p)
  \/ fill \/ FromSockaddr \/ GetText \/ ParseText
  \/ \E n \in Numbers : AppendNumber(n)

AddressSpec == AddressInit /\ [][AddressNext]_addressVars

-----------------------------------------------------------------------------
(* Properties.                                                             *)

\* What to_string() writes, parse() reads as the same endpoint: every run of
\* zeros, at either end or in the middle, with a port and without.
EndpointReadsBack ==
  parse(to_string(endpoint)) = [status |-> "ok", endpoint |-> endpoint]

\* The words of s with a colon between them.
Joined(s) ==
  [i \in 1 .. 2 * Len(s) - 1 |-> IF i % 2 = 1 THEN s[(i + 1) \div 2] ELSE CO]

\* The text of a v6 address is the recommended one: of the runs of two zero
\* words or more the longest, the first of equally long ones, and only it,
\* is left out, and each other word is followed or preceded by one colon.
CanonicalV6Text ==
  endpoint.type = "AF_INET6" =>
    LET w == endpoint.m_addr
        runs == {r \in (1 .. 8) \X (1 .. 8) :
                   r[1] < r[2] /\ \A i \in r[1] .. r[2] : w[i] = 0}
        best == CHOOSE r \in runs : \A q \in runs :
                  \/ q[2] - q[1] < r[2] - r[1]
                  \/ q[2] - q[1] = r[2] - r[1] /\ r[1] <= q[1]
    IN Inner(V6Text(w)) =
         IF runs = {} THEN Joined(w)
         ELSE Joined(SubSeq(w, 1, best[1] - 1)) \o <<CO, CO>>
              \o Joined(SubSeq(w, best[2] + 1, 8))

\* A sockaddr holds port and address in network order, and gives back the
\* endpoint it was filled from.
SockaddrInNetworkOrder ==
  LET s == FillStorage(endpoint) IN
  /\ FromStorage(s) = endpoint
  /\ endpoint.m_port = s.port[1] * 256 + s.port[2]
  /\ endpoint.type = "AF_INET6" =>
       \A i \in 1 .. 8 :
         endpoint.m_addr[i] = s.addr[2 * i - 1] * 256 + s.addr[2 * i]

\* A number after an address is its port, or the text is refused: it is not
\* cut to 16 bits.
NoPortIsCut ==
  number # None =>
    IF number <= 65535
    THEN parse(text).status = "ok" /\ parse(text).endpoint.m_port = number
    ELSE parse(text) = BadFormat

\* A v6 address without brackets is read with port 0, although its last word
\* is first taken for a port; where stoul() cannot read that word, at the
\* end of the gap or before a letter, the noexcept function throws instead.
BareV6Text ==
  endpoint.type = "AF_INET6" =>
    LET bare == Inner(V6Text(endpoint.m_addr)) IN
    IF Last(bare) = CO \/ Lead(Last(bare)) >= 10
    THEN parse(bare).status = "terminate"
    ELSE parse(bare) = [status |-> "ok",
                        endpoint |-> [endpoint EXCEPT !.m_port = 0]]
=============================================================================
