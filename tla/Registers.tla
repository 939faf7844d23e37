------------------------------ MODULE Registers -------------------------------
(***************************************************************************)
(* Numbers in Modbus registers: the codec of the client port, and the      *)
(* register map and write decoder of the server.                           *)
(*                                                                         *)
(* A register holds two bytes of base Byte instead of 256.  Numbers are    *)
(* counted in halves, so that a cut-off fraction is seen; a float32 is one *)
(* of the Byte^4 patterns of two registers, exact up to FloatMax, with     *)
(* three patterns for what is not finite.  Rounding is left out.           *)
(***************************************************************************)
EXTENDS Integers, Sequences, SequencesExt, FiniteSets

CONSTANTS
    Byte,       \* the base of a byte: 256
    MaxRegister \* the last register address: 65535

ASSUME ByteAssumption == Byte \in Nat /\ Byte >= 2
ASSUME RegisterAssumption == MaxRegister \in Nat /\ MaxRegister >= 1

Word == Byte * Byte
Long == Word * Word
FloatMax == Long \div 2 - 2

\* A value as Python has it: its type, whether it is finite, and how many halves.
Finite(type, n) == [type |-> type, special |-> "no", n |-> n]
Special(type, which) == [type |-> type, special |-> which, n |-> 0]

Done(out) == [ok |-> TRUE, out |-> out]
Refused(error) == [ok |-> FALSE, error |-> error]
Leaks == Refused("untyped")

\* int(x) cuts off towards zero.
Trunc(n) == IF n >= 0 THEN n \div 2 ELSE -((-n) \div 2)

-------------------------------------------------------------------------------
(***************************************************************************)
(* Bytes and registers                                                     *)
(***************************************************************************)
IntRange(datatype) ==
    CASE datatype = "int16" -> -(Word \div 2) .. (Word \div 2 - 1)
      [] datatype = "uint16" -> 0 .. (Word - 1)
      [] datatype = "int32" -> -(Long \div 2) .. (Long \div 2 - 1)
      [] datatype = "uint32" -> 0 .. (Long - 1)

RegisterCount(datatype) == IF datatype \in {"int16", "uint16"} THEN 1 ELSE 2

Capacity(count) == IF count = 1 THEN Word ELSE Long

\* struct.pack: two bytes per register, in the byte order of the format.
Bytes(pattern, count, order) ==
    LET high == pattern \div Word
        low == pattern % Word
        big == IF count = 1 THEN <<pattern \div Byte, pattern % Byte>>
               ELSE <<high \div Byte, high % Byte, low \div Byte, low % Byte>>
    IN  IF order = "big_endian" THEN big ELSE Reverse(big)

\* struct.unpack of the bytes of one register or of two.
Pattern(bytes, order) ==
    LET big == IF order = "big_endian" THEN bytes ELSE Reverse(bytes)
        Pair(i) == big[i] * Byte + big[i + 1]
    IN  IF Len(big) = 2 THEN Pair(1) ELSE Pair(1) * Word + Pair(3)

\* Registers are big-endian, whatever the byte order of the value.
BytesToRegisters(bytes) ==
    [i \in 1..(Len(bytes) \div 2) |-> bytes[2 * i - 1] * Byte + bytes[2 * i]]

RegistersToBytes(registers) ==
    [i \in 1..(2 * Len(registers)) |->
        LET r == registers[(i + 1) \div 2] IN IF i % 2 = 1 THEN r \div Byte ELSE r % Byte]

\* Mutant: the bytes of the registers are swapped, too.
WordSwapBytes(registers, swap) ==
    IF swap /\ Len(registers) = 2
    THEN <<(registers[2] % Byte) * Byte + registers[2] \div Byte, registers[1]>>
    ELSE registers

WordSwap(registers, swap) ==
    IF swap /\ Len(registers) = 2 THEN Reverse(registers) ELSE registers

\* The pattern of a float32, and the value of one.
FloatPattern(v) ==
    CASE v.special = "no" -> v.n % Long
      [] v.special = "nan" -> Long \div 2
      [] v.special = "inf" -> FloatMax + 1
      [] v.special = "-inf" -> Long \div 2 + 1

FloatOf(type, pattern) ==
    CASE pattern <= FloatMax -> Finite(type, pattern)
      [] pattern = FloatMax + 1 -> Special(type, "inf")
      [] pattern = Long \div 2 -> Special(type, "nan")
      [] pattern = Long \div 2 + 1 -> Special(type, "-inf")
      [] OTHER -> Finite(type, pattern - Long)

-------------------------------------------------------------------------------
(***************************************************************************)
(* The codec of the client: a layout is [datatype, order, swap]            *)
(***************************************************************************)
Pack(pattern, layout) ==
    WordSwap(BytesToRegisters(Bytes(pattern, RegisterCount(layout.datatype), layout.order)),
             layout.swap)

ModbusCodecErrors ==
    {"out_of_range", "non_finite", "register_count", "struct", "odd_bytes", "payload_type"}

\* A finite value beyond float32 raises OverflowError out of struct.pack, and
\* int() of what is not finite raises what no codec error is.
EncodeFloat(v, layout) ==
    IF v.special # "no" THEN Refused("non_finite")
    ELSE IF v.n \notin -FloatMax .. FloatMax THEN Leaks
    ELSE Done(Pack(FloatPattern(v), layout))

EncodeInt(v, layout) ==
    IF v.special # "no" THEN Leaks
    ELSE IF Trunc(v.n) \notin IntRange(layout.datatype) THEN Refused("out_of_range")
    ELSE Done(Pack(Trunc(v.n) % Capacity(RegisterCount(layout.datatype)), layout))

EncodeValue(v, layout) ==
    IF v.type \notin {"bool", "int", "decimal", "float"} THEN Refused("payload_type")
    ELSE IF layout.datatype = "float32" THEN EncodeFloat(v, layout) ELSE EncodeInt(v, layout)

\* Two's complement for the signed types.
Signed(pattern, datatype) ==
    IF pattern \in IntRange(datatype) THEN pattern
    ELSE pattern - Capacity(RegisterCount(datatype))

DecodeRegisters(registers, layout) ==
    LET pattern == Pattern(RegistersToBytes(WordSwap(registers, layout.swap)), layout.order) IN
    IF Len(registers) # RegisterCount(layout.datatype) THEN Refused("register_count")
    ELSE IF layout.datatype = "float32" THEN Done(FloatOf("decimal", pattern))
    ELSE Done(Finite("decimal", 2 * Signed(pattern, layout.datatype)))

-------------------------------------------------------------------------------
(***************************************************************************)
(* The server: `reads` and `writes` are sequences of [address, device]     *)
(***************************************************************************)
Window(m) == {m.address, m.address + 1}

NoOverlap(maps) == \A i, j \in DOMAIN maps : i # j => Window(maps[i]) \cap Window(maps[j]) = {}

ServerConfigErrors ==
    {"empty_field", "port", "unit_id", "no_targets", "address", "write_field", "write_address",
     "overlap"}

\* The first error of the windows of a server, or "none".
ServerConfigError(config) ==
    LET reads == ToSet(config.reads)
        writes == ToSet(config.writes)
        Outside(m) == m.address \notin 0 .. (MaxRegister - 1) IN
    CASE reads = {} -> "no_targets"
      [] \E m \in reads : Outside(m) -> "address"
      [] \E m \in writes : m.device = "" -> "write_field"
      [] \E m \in writes : Outside(m) -> "write_address"
      [] ~NoOverlap(config.reads \o config.writes) -> "overlap"
      [] OTHER -> "none"

\* The counts _build_device makes room for.
HoldingCount(config) ==
    LET addresses == {m.address : m \in ToSet(config.reads) \cup ToSet(config.writes)}
    IN  (CHOOSE a \in addresses : \A b \in addresses : b <= a) + 2

\* encode_float32 is total: it saturates, and gives NaN for what is no float.
EncodeFloat32(v) ==
    LET saturated ==
            CASE v.special # "no" \/ v.n \in -FloatMax .. FloatMax -> v
              [] v.n > FloatMax -> Special(v.type, "inf")
              [] OTHER -> Special(v.type, "-inf")
        pattern == FloatPattern(saturated)
    IN  <<pattern \div Word, pattern % Word>>

\* decode_float32: a value, or none when it is not finite.
DecodeFloat32(high, low) ==
    LET v == FloatOf("decimal", (high % Word) * Word + (low % Word))
    IN  IF v.special = "no" THEN {v} ELSE {}

\* The words of a window for a frame of current values; no point gives zeros.
WindowWords(frame, m) ==
    IF m.device \in DOMAIN frame THEN EncodeFloat32(frame[m.device].value) ELSE <<0, 0>>

DiscreteOf(frame, m) == m.device \in DOMAIN frame /\ frame[m.device].quality = "valid"

\* RegisterMap.refresh_frame: one snapshot, the read windows in their order.
RefreshFrame(config, frame) ==
    [windows |-> [i \in DOMAIN config.reads |->
                    [address |-> config.reads[i].address,
                     words |-> WindowWords(frame, config.reads[i])]],
     discrete |-> [i \in DOMAIN config.reads |-> DiscreteOf(frame, config.reads[i])]]

Covered(m, address, count) == Window(m) \subseteq address .. (address + count - 1)

\* Mutant: every window is taken from the first two values of the write.
DecodeInboundFirst(config, address, values) ==
    LET Values(m) == DecodeFloat32(values[1], values[2])
        hit == {m \in ToSet(config.writes) : Covered(m, address, Len(values)) /\ Values(m) # {}}
        Rank(m) == Cardinality({n \in hit : n.address <= m.address})
        Order(m) == [device |-> m.device, value |-> (CHOOSE v \in Values(m) : TRUE).n]
    IN  [k \in 1..Cardinality(hit) |-> Order(CHOOSE m \in hit : Rank(m) = k)]

\* InboundWriteDecoder.decode: the windows a write covers as a whole and with a number,
\* in the order of their addresses.
DecodeInbound(config, address, values) ==
    LET Values(m) == DecodeFloat32(values[m.address - address + 1], values[m.address - address + 2])
        hit == {m \in ToSet(config.writes) : Covered(m, address, Len(values)) /\ Values(m) # {}}
        Rank(m) == Cardinality({n \in hit : n.address <= m.address})
        Order(m) == [device |-> m.device, value |-> (CHOOSE v \in Values(m) : TRUE).n]
    IN  [k \in 1..Cardinality(hit) |-> Order(CHOOSE m \in hit : Rank(m) = k)]
===============================================================================
