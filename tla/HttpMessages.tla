---------------------------- MODULE HttpMessages ----------------------------
(***************************************************************************)
(* The message classes of cppio::network::http: request and response, with *)
(* the header_map they hold and the URL encoding of parameters.  A program *)
(* builds, copies, moves and serialises objects, and reads a text back     *)
(* with create(): one it has serialised itself, or a request of a peer.    *)
(*                                                                         *)
(* A text is a sequence of characters.  Those the code looks for, and the  *)
(* ones that are URL-encoded, are bytes; a line end, a method, a version,  *)
(* a header name and a decimal numeral, which it only copies or compares   *)
(* as a whole, are one symbol each, above the bytes.                       *)
(***************************************************************************)
EXTENDS Integers, SequencesExt

CONSTANTS
  Objects,   \* the message objects of the program
  Methods,   \* the methods used, of 0 .. 8
  Paths,     \* the arguments of set_path
  Texts,     \* parameter names and values, header values, contents
  Codes,     \* the arguments of set_status
  Queries,   \* the queries of the peer: sequences of <<name, value>>
  HeaderTexts, \* its headers: sequences of what follows "Host:"
  MaxCalls   \* bound: class -> calls of the program

SP == 32        PERCENT == 37   AMP == 38    PLUS == 43
COLON == 58     EQ == 61        QUERY == 63  LINE_END == 256
MethodWord == 300    Version == 320   OK == 321   OldVersion == 322
Host == 331          ContentLength == 330
Numeral == 1000

\* The bytes of a text: a carriage return would make a line end.
Character == {n \in Nat : n \in 1 .. 127 /\ n # 13}

\* The blank after the path and the ? in it end it for create().
ASSUME HttpAssumption ==
  /\ Methods \subseteq 0 .. 8 /\ Codes \subseteq 0 .. 999
  /\ MaxCalls \in [{"request", "response"} -> Nat]
  /\ Texts \subseteq Seq(Character)
  /\ Paths \subseteq Seq(Character \ {SP, QUERY})
  /\ Queries \subseteq Seq(Seq(Character) \X Seq(Character))
  /\ HeaderTexts \subseteq Seq(Seq(Character))

VARIABLES
  kind,    \* the class: "request" or "response"
  objects, \* object -> its members
  wire,    \* the text serialised or received last
  back,    \* what create() makes of it
  origin,  \* where it is from: "none", "written" or "received"
  sent,    \* history: the object it was serialised from
  query,   \* history: the query it was received with
  values,  \* history: what followed the colons of its headers
  calls    \* calls made so far (bound MaxCalls)

wireVars == <<wire, back, origin, sent, query, values>>
httpVars == <<kind, objects, wireVars, calls>>

-----------------------------------------------------------------------------
(* std::string_view                                                        *)

\* Where the first c of s is; 0 stands for npos.
find(s, c) ==
  LET at == {i \in 1 .. Len(s) : s[i] = c} IN IF at = {} THEN 0 ELSE Min(at)

\* s.substr(0, s.find(c)), and s.substr(s.find(c) + 1): without a c both are
\* the whole of s, since npos + 1 is 0.
Before(s, c) == IF find(s, c) = 0 THEN s ELSE SubSeq(s, 1, find(s, c) - 1)
After(s, c) == SubSeq(s, find(s, c) + 1, Len(s))

\* The loops of header_map::create and of the query cut the text at each c,
\* until nothing is left or there is no c.
CutOne(loop, c) ==
  IF loop.left = <<>> THEN loop
  ELSE [left |-> IF find(loop.left, c) = 0 THEN <<>> ELSE After(loop.left, c),
        pieces |-> Append(loop.pieces, Before(loop.left, c))]

Pieces(s, c) ==
  LET cut[i \in 0 .. Len(s)] ==
        IF i = 0 THEN [left |-> s, pieces |-> <<>>] ELSE CutOne(cut[i - 1], c)
  IN cut[Len(s)].pieces

-----------------------------------------------------------------------------
(* encoding.inl                                                            *)

\* isalnum, and the four other characters that stay as they are
Unreserved(ch) ==
  ch \in (48 .. 57) \cup (65 .. 90) \cup (97 .. 122) \cup {45, 95, 46, 126}

\* Mutant of to_hex: upper case, without the offset of the letters.
ToHexDigitsOnly(code) == 48 + code

to_hex(code) == IF code < 10 THEN 48 + code ELSE 97 + code - 10

\* tolower(ch) - 'a' + 10
from_hex(ch) == CASE ch \in 48 .. 57 -> ch - 48
                  [] ch \in 65 .. 90 -> ch + 32 - 97 + 10
                  [] OTHER -> ch - 97 + 10

\* The result ends with a NUL that is part of the string.
url_encode(url) ==
  Append(FlattenSeq([i \in DOMAIN url |->
           IF Unreserved(url[i]) THEN <<url[i]>>
           ELSE <<PERCENT, to_hex(url[i] \div 16), to_hex(url[i] % 16)>>]), 0)

\* One turn of the loop of url_decode.  A % without two characters after it is
\* dropped.
DecodeOne(url, loop) ==
  LET it == loop.it
      push(ch, n) == [it |-> it + n, result |-> Append(loop.result, ch)]
  IN IF it > Len(url) THEN loop
     ELSE IF url[it] # PERCENT
     THEN push(IF url[it] = PLUS THEN SP ELSE url[it], 1)
     ELSE IF it + 2 > Len(url) THEN [loop EXCEPT !.it = it + 1]
     ELSE push(from_hex(url[it + 1]) * 16 + from_hex(url[it + 2]), 3)

url_decode(url) ==
  LET dec[i \in 0 .. Len(url)] ==
        IF i = 0 THEN [it |-> 1, result |-> <<>>] ELSE DecodeOne(url, dec[i - 1])
  IN dec[Len(url)].result

-----------------------------------------------------------------------------
(* header_map: a std::multimap, as the sequence its iterators go through.   *)

\* Names are words, and so ordered by one symbol.
upper_bound(map, key) ==
  Min({i \in 1 .. Len(map) : map[i].key[1] > key[1]} \cup {Len(map) + 1})

\* Sorted by name, equal names in the order of the calls.
add(map, key, value) ==
  InsertAt(map, upper_bound(map, key), [key |-> key, value |-> value])

get(map, key) ==
  LET out[i \in 0 .. Len(map)] ==
        IF i = 0 THEN <<>>
        ELSE IF map[i].key = key THEN Append(out[i - 1], map[i].value)
        ELSE out[i - 1]
  IN out[Len(map)]

SerializeHeaders(map) ==
  FlattenSeq([i \in DOMAIN map |->
    map[i].key \o <<COLON, SP>> \o map[i].value \o <<LINE_END>>])

\* Mutant of HeaderValue: the blank after the colon is kept.
HeaderValueWithBlank(line) == SubSeq(line, find(line, COLON) + 1, Len(line))

HeaderValue(line) == SubSeq(line, find(line, COLON) + 2, Len(line))

\* One turn of the loop of header_map::create: a line without a colon is
\* refused, and one that ends with its first colon makes substr() throw in a
\* noexcept function.
AddLine(loop, line) ==
  IF loop.status # "ok" THEN loop
  ELSE IF find(line, COLON) = 0 THEN [status |-> "invalid"]
  ELSE IF find(line, COLON) = Len(line) THEN [status |-> "throws"]
  ELSE [status |-> "ok",
        map |-> add(loop.map, Before(line, COLON), HeaderValue(line))]

CreateHeaders(text) ==
  LET lines == Pieces(text, LINE_END)
      read[i \in 0 .. Len(lines)] ==
        IF i = 0 THEN [status |-> "ok", map |-> <<>>]
        ELSE AddLine(read[i - 1], lines[i])
  IN read[Len(lines)]

-----------------------------------------------------------------------------
(* What request::create and response::create have in common.               *)

\* text.substr(0, text.find(BLOCK_END))
HeadOf(text) ==
  LET ends == {i \in 1 .. Len(text) - 1 :
                 text[i] = LINE_END /\ text[i + 1] = LINE_END}
  IN IF ends = {} THEN text ELSE SubSeq(text, 1, Min(ends) - 1)

\* The three fields of the first line.  Without a second blank the last one
\* is the whole line.
Fields(line) ==
  LET rest == After(line, SP) IN
  <<Before(line, SP), Before(rest, SP),
    IF find(line, SP) # 0 /\ find(rest, SP) # 0 THEN After(rest, SP) ELSE line>>

\* Mutant of FirstLineFound: the first line may be the last one.
FirstLineOptional(head) == TRUE

\* A head of one line only is refused.
FirstLineFound(head) == find(head, LINE_END) # 0

CreateHead(text) ==
  LET head == HeadOf(text)
      headers == CreateHeaders(
        IF find(head, LINE_END) = 0 THEN <<>> ELSE After(head, LINE_END))
  IN IF ~FirstLineFound(head) THEN [status |-> "invalid"]
     ELSE IF headers.status # "ok" THEN headers
     ELSE [status |-> "ok", fields |-> Fields(Before(head, LINE_END)),
           map |-> headers.map]

-----------------------------------------------------------------------------
(* request                                                                 *)

\* to_string(method) and create(std::string): what is no method is a GET.
MethodText(m) == <<MethodWord + m>>
CreateMethod(text) ==
  IF \E m \in 0 .. 8 : text = MethodText(m) THEN text[1] - MethodWord ELSE 0

DefaultRequest ==
  [m_method |-> 0, m_version |-> <<Version>>, m_path |-> <<>>,
   m_headers |-> <<>>, m_parameters |-> <<>>]

\* Mutant of SetParameter: the first value of a name wins.
KeepParameter(map, key, value) ==
  [k \in DOMAIN map \cup {key} |-> IF k \in DOMAIN map THEN map[k] ELSE value]

\* m_parameters[key] = value
SetParameter(map, key, value) ==
  [k \in DOMAIN map \cup {key} |-> IF k = key THEN value ELSE map[k]]

\* One turn of the loop over the query.  The name is not decoded.
AddParameter(map, data) ==
  SetParameter(map, Before(data, EQ),
    IF find(data, EQ) = 0 THEN <<>> ELSE url_decode(After(data, EQ)))

ParseQuery(args) ==
  LET pieces == Pieces(args, AMP)
      read[i \in 0 .. Len(pieces)] ==
        IF i = 0 THEN <<>> ELSE AddParameter(read[i - 1], pieces[i])
  IN read[Len(pieces)]

BuildRequest(fields, headers) ==
  [m_method |-> CreateMethod(fields[1]),
   m_path |-> Before(fields[2], QUERY),
   m_version |-> fields[3],
   m_headers |-> headers,
   m_parameters |-> IF find(fields[2], QUERY) = 0 THEN <<>>
                    ELSE ParseQuery(After(fields[2], QUERY))]

\* request::serialize.  `order` is how the unordered_map iterates; nothing
\* separates two parameters.
SerializeRequest(r, order) ==
  MethodText(r.m_method) \o <<SP>> \o r.m_path
  \o (IF order = <<>> THEN <<>> ELSE <<QUERY>>)
  \o FlattenSeq([i \in DOMAIN order |->
       url_encode(order[i]) \o <<EQ>> \o url_encode(r.m_parameters[order[i]])])
  \o <<SP>> \o r.m_version \o <<LINE_END>>
  \o SerializeHeaders(r.m_headers) \o <<LINE_END>>

-----------------------------------------------------------------------------
(* response                                                                *)

to_string(n) == <<Numeral + n>>

DefaultResponse ==
  [m_version |-> <<Version>>, m_code |-> 200, m_headers |-> <<>>,
   m_content |-> <<>>]

\* The content is not read.
BuildResponse(fields, headers) ==
  [m_version |-> fields[1], m_code |-> fields[2][1] - Numeral,
   m_headers |-> headers, m_content |-> <<>>]

\* Mutant of WithLength: an object that has a length keeps it.
KeepLength(r) ==
  IF get(r.m_headers, <<ContentLength>>) # <<>> THEN r
  ELSE [r EXCEPT !.m_headers =
          add(@, <<ContentLength>>, to_string(Len(r.m_content)))]

\* serialize() first adds the length to the headers of the object itself.
WithLength(r) ==
  [r EXCEPT !.m_headers =
     add(@, <<ContentLength>>, to_string(Len(r.m_content)))]

SerializeResponse(r) ==
  r.m_version \o <<SP>> \o to_string(r.m_code) \o <<SP, OK, LINE_END>>
  \o SerializeHeaders(r.m_headers) \o <<LINE_END>> \o r.m_content

-----------------------------------------------------------------------------
(* The calls of a program.                                                 *)

Default == IF kind = "request" THEN DefaultRequest ELSE DefaultResponse

\* What std::exchange(member, {}) leaves behind.
Emptied ==
  IF kind = "request"
  THEN [DefaultRequest EXCEPT !.m_version = <<>>]
  ELSE [DefaultResponse EXCEPT !.m_version = <<>>, !.m_code = 0]

HttpInit ==
  /\ kind \in {"request", "response"}
  /\ objects = [o \in Objects |-> Default]
  /\ wire = <<>> /\ back = [status |-> "none"] /\ origin = "none"
  /\ sent = Default /\ query = <<>> /\ values = <<>>
  /\ calls = 0

\* request::create and response::create
create(text) ==
  LET r == CreateHead(text) IN
  IF r.status # "ok" THEN [status |-> r.status]
  ELSE [status |-> "ok",
        object |-> IF kind = "request" THEN BuildRequest(r.fields, r.map)
                                       ELSE BuildResponse(r.fields, r.map)]

\* There is a new text; create() is a function of it.
Publish(text) == wire' = text /\ back' = create(text)

\* What is thrown out of a noexcept function ends the program.
Call(newObjects) ==
  /\ calls < MaxCalls[kind]
  /\ back.status # "throws"
  /\ calls' = calls + 1
  /\ objects' = newObjects
  /\ UNCHANGED kind

SetRequest(o) ==
  /\ kind = "request"
  /\ \/ \E m \in Methods : Call([objects EXCEPT ![o].m_method = m])
     \/ Call([objects EXCEPT ![o].m_version = <<OldVersion>>])
     \/ \E p \in Paths : Call([objects EXCEPT ![o].m_path = p])
     \/ \E k, v \in Texts :
          Call([objects EXCEPT ![o].m_parameters = SetParameter(@, k, v)])
  /\ UNCHANGED wireVars

SetResponse(o) ==
  /\ kind = "response"
  /\ \/ \E c \in Codes : Call([objects EXCEPT ![o].m_code = c])
     \/ Call([objects EXCEPT ![o].m_version = <<OldVersion>>])
     \/ \E s \in Texts : Call([objects EXCEPT ![o].m_content = s])
     \/ \E s \in Texts :
          Call([objects EXCEPT ![o].m_headers = add(@, <<Host>>, s)])
  /\ UNCHANGED wireVars

\* Copy construction and assignment.
Copy(from, to) ==
  /\ Call([objects EXCEPT ![to] = objects[from]])
  /\ UNCHANGED wireVars

Move(from, to) ==
  /\ Call([objects EXCEPT ![to] = objects[from], ![from] = Emptied])
  /\ UNCHANGED wireVars

\* operator=(&&) swaps.
MoveAssign(from, to) ==
  /\ Call([objects EXCEPT ![to] = objects[from], ![from] = objects[to]])
  /\ UNCHANGED wireVars

Serialize(o) ==
  /\ IF kind = "request"
     THEN /\ Call(objects)
          /\ \E order \in SetToSeqs(DOMAIN objects[o].m_parameters) :
               Publish(SerializeRequest(objects[o], order))
     ELSE /\ Call([objects EXCEPT ![o] = WithLength(@)])
          /\ Publish(SerializeResponse(WithLength(objects[o])))
  /\ sent' = objects'[o]
  /\ origin' = "written"
  /\ UNCHANGED <<query, values>>

\* A request of a peer with the parameters q in its query, names and values
\* URL-encoded (without the NUL), and the headers h: what follows a colon is
\* a blank and a value, a value alone, or nothing.
PeerText(p, q, h) ==
  LET enc(s) == Front(url_encode(s))
      pairs == [i \in DOMAIN q |-> (IF i = 1 THEN <<QUERY>> ELSE <<AMP>>)
                  \o enc(q[i][1]) \o <<EQ>> \o enc(q[i][2])]
  IN MethodText(0) \o <<SP>> \o p \o FlattenSeq(pairs)
     \o <<SP, Version, LINE_END>>
     \o FlattenSeq([i \in DOMAIN h |-> <<Host, COLON>> \o h[i] \o <<LINE_END>>])
     \o <<LINE_END>>

Receive(p, q, h) ==
  /\ kind = "request"
  /\ Call(objects)
  /\ Publish(PeerText(p, q, h))
  /\ query' = q /\ values' = h
  /\ origin' = "received"
  /\ UNCHANGED sent

\* o = create(text).value(), or nothing when it is refused.
ReadBack(o) ==
  /\ origin # "none"
  /\ Call(IF back.status = "ok" THEN [objects EXCEPT ![o] = back.object]
                                ELSE objects)
  /\ UNCHANGED wireVars

HttpNext ==
  \/ \E o \in Objects : SetRequest(o) \/ SetResponse(o) \/ Serialize(o) \/ ReadBack(o)
  \/ \E a, b \in Objects : a # b /\ (Copy(a, b) \/ Move(a, b) \/ MoveAssign(a, b))
  \/ \E p \in Paths, q \in Queries, h \in HeaderTexts : Receive(p, q, h)

HttpSpec == HttpInit /\ [][HttpNext]_httpVars

-----------------------------------------------------------------------------
(* Properties.                                                             *)

Written == origin = "written"
Received == origin = "received"

\* What create() makes of a text.  It refuses one only for having no header
\* at all, which every request built by set_method, set_path and parameters()
\* is.  What was serialised it reads otherwise.  Of a peer's text a header
\* with nothing after its colon, which is a legal one, ends the program; the
\* headers are read when there is none, each without the character after its
\* colon, be it a blank or not.
CreateOutcome ==
  /\ Written =>
       back.status = IF sent.m_headers = <<>> THEN "invalid" ELSE "ok"
  /\ Received =>
       back.status = IF values = <<>> THEN "invalid"
                     ELSE IF \E i \in DOMAIN values : values[i] = <<>> THEN "throws"
                     ELSE "ok"
  /\ Received /\ back.status = "ok" =>
       back.object.m_headers =
         [i \in DOMAIN values |-> [key |-> <<Host>>, value |-> Tail(values[i])]]

\* A message that was built or read, copied, moved and serialised, is read
\* as it is after serialize(): the first line, and the headers in their
\* order.  create() reads no content, and the parameters are apart.
MessageReadsBack ==
  Written /\ back.status = "ok" =>
    LET r == back.object IN
    IF kind = "response" THEN r = [sent EXCEPT !.m_content = <<>>]
    ELSE /\ [r EXCEPT !.m_parameters = <<>>] = [sent EXCEPT !.m_parameters = <<>>]
         /\ sent.m_parameters = <<>> => r.m_parameters = <<>>

\* Of the parameters serialize() writes, create() finds one.  If it is the
\* only one its value is decoded to what it was, with the NUL of url_encode
\* at its end; so does its name, which is not decoded.
ParametersRunTogether ==
  /\ Written /\ kind = "request" /\ back.status = "ok"
  /\ sent.m_parameters # <<>>
  =>
    LET got == back.object.m_parameters
        names == DOMAIN sent.m_parameters
    IN \E k \in names :
         /\ DOMAIN got = {url_encode(k)}
         /\ names = {k} => got[url_encode(k)] = Append(sent.m_parameters[k], 0)

\* The parameters of a peer's request: each encoded name has the decoded
\* form of the last value it is given, however values and names look.
QueryIsUnderstood ==
  Received /\ back.status = "ok" =>
    LET got == back.object.m_parameters
        enc(i) == Front(url_encode(query[i][1]))
    IN /\ DOMAIN got = {enc(i) : i \in DOMAIN query}
       /\ \A i \in DOMAIN query :
            (\A j \in DOMAIN query : j > i => query[j][1] # query[i][1]) =>
              got[enc(i)] = query[i][2]

\* An object that is serialised again, or was read from a text, carries
\* older lengths too: the last Content-Length of a message is the right one.
LastLengthIsRight ==
  Written /\ kind = "response" =>
    LET lengths == get(sent.m_headers, <<ContentLength>>) IN
    /\ lengths # <<>>
    /\ Last(lengths) = to_string(Len(sent.m_content))
=============================================================================
