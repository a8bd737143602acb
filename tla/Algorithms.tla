------------------------------- MODULE Algorithms -------------------------------
(***************************************************************************)
(* The pure functions the components rely on, over bounded inputs: TimeOps, *)
(* the temperature of a DS18B20 scratchpad, UriOps, StringOps with serial  *)
(* numbers, and CrcOps.  A behaviour takes one sample and evaluates it.    *)
(***************************************************************************)
EXTENDS Integers, FiniteSets, SequencesExt

CONSTANTS
  TimeRange,    \* values of the integer type of a time, 2^w
  RawTemperature,  \* temperature registers of a DS18B20
  Word,         \* names and values of query parameters
  SerialByte,   \* bytes of serial numbers
  SerialSize,   \* bytes of a serial number, six in the code
  Message       \* bytes that are sent with a checksum

ASSUME AlgorithmsAssumption ==
  /\ TimeRange \in Nat \ {0}
  /\ RawTemperature \subseteq Nat /\ SerialByte \subseteq 0 .. 255
  /\ Message \subseteq Seq(0 .. 255)

VARIABLES
  sample,  \* a function and its arguments
  answer   \* what it returned, <<>> before

algVars == <<sample, answer>>

-----------------------------------------------------------------------------
(* Time *)

\* TimeOps::after: the interval has passed since start.  The sum wraps.
After_strict(start, now, interval) == (now - start) % TimeRange > interval
After(start, now, interval) ==
  LET dest == (start + interval) % TimeRange IN
  IF now < start THEN dest > start \/ dest <= now
                 ELSE dest <= now /\ dest >= start

-----------------------------------------------------------------------------
(* Temperature of a DS18B20, in sixteenths of a degree *)

Nth(value, pos) == (value \div 2^pos) % 2

\* Scratchpad::get_temperature: the bits the resolution has, and the sign in the other five.
Temperature(raw, bits) ==
  LET set == {i \in 12 - bits .. 10 : Nth(raw, i) = 1}
      magnitude == FoldSet(LAMBDA i, sum : sum + 2^i, 0, set)
  IN  IF \A i \in 11 .. 15 : Nth(raw, i) = 1 THEN -magnitude ELSE magnitude

\* The value in two's complement, as much of it as the resolution measures.
Celsius(raw, bits) ==
  LET value == IF raw >= 2^15 THEN raw - 2^16 ELSE raw IN value - (value % 2^(12 - bits))

-----------------------------------------------------------------------------
(* Text: a sequence of symbols *)

\* strchr: the first place of a symbol at or after from, 0 if there is none.
Strchr(text, symbol, from) ==
  LET places == {i \in from .. Len(text) : text[i] = symbol}
  IN  IF places = {} THEN 0 ELSE CHOOSE i \in places : \A j \in places : i <= j

ParsePath(uri) == LET query == Strchr(uri, "?", 1)
                  IN  IF query = 0 THEN uri ELSE SubSeq(uri, 1, query - 1)

\* parse_query: parameters begin behind the question mark and each ampersand, and end
\* before the next one.
Begins(uri) == {i + 1 : i \in {Strchr(uri, "?", 1)} \cup {j \in 1 .. Len(uri) : uri[j] = "&"}}
EndOf(uri, begin) == LET next == Strchr(uri, "&", begin)
                     IN  IF next = 0 THEN Len(uri) ELSE next - 1

\* parse_key_value: nothing for an empty name or value, and the first of a name is kept.
\* The equals sign is looked for beyond the parameter too.
Parsed(uri, begin) == LET equals == Strchr(uri, "=", begin)
                      IN  equals \notin {0, begin, EndOf(uri, begin)}
NameAt(uri, begin) == SubSeq(uri, begin, Strchr(uri, "=", begin) - 1)
ParseQuery(uri) ==
  LET begins == {b \in Begins(uri) : Parsed(uri, b)}
      First(name) == CHOOSE b \in begins : /\ NameAt(uri, b) = name
                                           /\ \A c \in begins : NameAt(uri, c) = name => b <= c
  IN  [name \in {NameAt(uri, b) : b \in begins} |->
         SubSeq(uri, Strchr(uri, "=", First(name)) + 1, EndOf(uri, First(name)))]

\* What a client sends for a sequence of parameters, and what it means by it.
Written(params) ==
  <<"/", "?">> \o FoldLeft(LAMBDA text, p : (IF text = <<>> THEN <<>> ELSE Append(text, "&"))
                                            \o p.name \o <<"=">> \o p.value, <<>>, params)
Meant(params) ==
  LET said == {i \in DOMAIN params : params[i].name # <<>> /\ params[i].value # <<>>}
  IN  [name \in {params[i].name : i \in said} |->
         params[CHOOSE i \in said : /\ params[i].name = name
                                    /\ \A j \in said : params[j].name = name => i <= j].value]

\* StringOps::split of the first size symbols of text, which strchr does not stop at.
Split(delimiter, text, size) ==
  LET from[s \in 1 .. Len(text) + 1, some \in BOOLEAN] ==
        LET end == Strchr(text, delimiter, s)
            piece == IF text[s] = delimiter THEN <<>> ELSE <<SubSeq(text, s, end - 1)>>
        IN  IF s = size THEN (IF text[s] = delimiter THEN <<>> ELSE <<<<text[s]>>>>)
            ELSE IF end = 0 THEN (IF some THEN <<SubSeq(text, s, size)>> ELSE <<>>)
            ELSE IF end = size THEN piece
            ELSE piece \o from[end + 1, some \/ piece # <<>>]
  IN  IF size < 2 THEN <<>> ELSE from[1, FALSE]

\* serial_number_to_str, parse_serial_number.  Hexadecimal digits are their values, 16 is
\* the colon.
Colon == 16
SerialText(number) ==
  FoldLeft(LAMBDA text, byte : (IF text = <<>> THEN <<>> ELSE Append(text, Colon))
                               \o <<byte \div 16, byte % 16>>, <<>>, number)
ParseSerial(text, size) ==
  LET values == Split(Colon, text, size)
  IN  IF /\ size = 3 * SerialSize - 1 /\ Len(values) = SerialSize
         /\ \A n \in DOMAIN values : Len(values[n]) = 2
      THEN [n \in 1 .. SerialSize |-> 16 * values[n][1] + values[n][2]]
      ELSE <<>>

-----------------------------------------------------------------------------
(* Checksums: a byte is the set of its bits that are 1, 0 the least significant *)

Byte == SUBSET (0 .. 7)
Bits(n) == {i \in 0 .. 7 : Nth(n, i) = 1}
Xor(a, b) == (a \ b) \cup (b \ a)

\* Bit order, polynomial and initial value of onewire::calculate_crc (0x8C, 0x00) and of
\* the SHT41 (0x31, 0xFF).
Crc_swapped == [LSB |-> [polynomial |-> {0, 4, 5}, initial |-> {}],
                MSB |-> [polynomial |-> {2, 3, 7}, initial |-> 0 .. 7]]
Crc == [LSB |-> [polynomial |-> {2, 3, 7}, initial |-> {}],
        MSB |-> [polynomial |-> {0, 4, 5}, initial |-> 0 .. 7]]

\* The bits in the order of the wire, and of the shift register.
Wire(order, i) == IF order = "LSB" THEN i ELSE 7 - i

\* One turn of the loop over the bits, and all eight.
ShiftOut(order, crc) ==
  LET moved == {i \in 0 .. 7 : (IF order = "LSB" THEN i + 1 ELSE i - 1) \in crc}
  IN  IF Wire(order, 0) \in crc THEN Xor(moved, Crc[order].polynomial) ELSE moved
ShiftTwo(order, crc) == ShiftOut(order, ShiftOut(order, crc))
ShiftFour(order, crc) == ShiftTwo(order, ShiftTwo(order, crc))
ShiftEight(order, crc) == ShiftFour(order, ShiftFour(order, crc))

\* CrcOps::crc8: the shift register after each byte, the last of which is returned.
Registers(order, bytes) ==
  LET crc[n \in 0 .. Len(bytes)] ==
        IF n = 0 THEN Crc[order].initial ELSE ShiftEight(order, Xor(crc[n - 1], bytes[n]))
  IN  crc
Crc8(order, bytes) == Registers(order, bytes)[Len(bytes)]

\* Scratchpad::valid, RomCode::valid, receive_data_
Accepted(order, buffer) == Crc8(order, Front(buffer)) = Last(buffer)

\* Bytes with their checksum, of which the bits flips change on the way, in the order of
\* the wire.
AsBits(bytes) == [n \in 1 .. Len(bytes) |-> Bits(bytes[n])]
Sent(order, bytes) == Append(AsBits(bytes), Crc8(order, AsBits(bytes)))
Damage(order, flips, n) == {i \in 0 .. 7 : 8 * (n - 1) + Wire(order, i) \in flips}
Received(order, buffer, flips) ==
  [n \in 1 .. Len(buffer) |-> Xor(buffer[n], Damage(order, flips, n))]

-----------------------------------------------------------------------------
(* Samples *)

Time == 0 .. TimeRange - 1
Bursts(bits) == {{}} \cup {{k \in {first} \cup {first + j : j \in more} : k < bits} :
                            first \in 0 .. bits - 1, more \in SUBSET (1 .. 7)}

Params == UNION {[1 .. n -> [name : Word, value : Word]] : n \in 1 .. 2}

Samples == [kind : {"after"}, start : Time, now : Time, interval : Time]
  \cup [kind : {"temperature"}, raw : RawTemperature, bits : 9 .. 12]
  \cup [kind : {"query"}, params : Params]
  \cup [kind : {"serial"}, number : [1 .. SerialSize -> SerialByte], rest : {<<>>, <<17>>}]
  \cup UNION {[kind : {"crc"}, order : {"LSB", "MSB"}, bytes : {bytes},
               flips : Bursts(8 * Len(bytes) + 8)] : bytes \in Message}

AlgInit == sample \in Samples /\ answer = <<>>

Evaluated(s) ==
  CASE s.kind = "after" -> After(s.start, s.now, s.interval)
    [] s.kind = "temperature" -> Temperature(s.raw, s.bits)
    [] s.kind = "query" -> [path |-> ParsePath(Written(s.params)),
                            values |-> ParseQuery(Written(s.params))]
    [] s.kind = "serial" -> ParseSerial(SerialText(s.number) \o s.rest, 3 * SerialSize - 1)
    [] s.kind = "crc" -> Accepted(s.order, Received(s.order, Sent(s.order, s.bytes), s.flips))

Evaluate == answer = <<>> /\ answer' = <<Evaluated(sample)>> /\ sample' = sample

AlgNext == Evaluate

AlgSpec == AlgInit /\ [][AlgNext]_algVars

-----------------------------------------------------------------------------
(* Properties *)

\* What is evaluated is what it is meant to be: an interval has passed when the clock,
\* wrapping, has advanced by that much (an interval of zero, only if it has not wrapped);
\* positive temperatures keep the bits of their resolution; the parameters a client
\* writes, and a serial number printed, are read back.
Expected(s) ==
  CASE s.kind = "after" -> /\ (s.now - s.start) % TimeRange >= s.interval
                           /\ s.interval = 0 => s.now >= s.start
    [] s.kind = "temperature" -> Celsius(s.raw, s.bits)
    [] s.kind = "query" -> [path |-> <<"/">>, values |-> Meant(s.params)]
    [] s.kind = "serial" -> s.number

MatchesReference ==
  /\ answer # <<>> /\ sample.kind # "crc"
  /\ sample.kind = "temperature" => sample.raw < 2^15
  => answer = <<Expected(sample)>>

\* A transfer of which up to eight bits in a row are damaged, the checksum included, is
\* refused, and an undamaged one accepted, on both buses (bit order and polynomial fit).
BurstsAreFound == answer # <<>> /\ sample.kind = "crc" => answer = <<sample.flips = {}>>

\* scratchpad.h:31: get_temperature returns the sensor temperature in Celsius, below zero
\* too.
TemperatureInCelsius ==
  answer # <<>> /\ sample.kind = "temperature" => answer = <<Expected(sample)>>
=============================================================================
