------------------------------ MODULE GnssDecode ------------------------------
(***************************************************************************)
(* The decoders of binary records (core/src/gnss_ephb_decode.c), called    *)
(* when the scanner found a record whose check sum is right, and what      *)
(* handle_gnss_raw sends on of the result (core/src/gnss_ephb.c:181-360).  *)
(*                                                                         *)
(* A decoder reads fields of so many bits one after the other into the     *)
(* members of a packed struct, in their order, and counts the bits itself: *)
(* the length it is given is not used.  Each field is written in the code  *)
(* with two numbers, the bits that are read and those the counter then     *)
(* steps over, and so it is here.  Values are followed through the reader  *)
(* and the types the code converts them to; scale factors are left out.    *)
(***************************************************************************)
EXTENDS Integers, Sequences, SequencesExt

CONSTANTS Messages,   \* kinds of records that come
          MaxSats,    \* bound: satellites in a PRANGEB record (the code's is 63)
          MaxSignals  \* bound: signals of a satellite (the code's is 15)

ASSUME DecodeAssumption ==
  /\ Messages \subseteq {"bd2", "bd3", "bd3cnav2", "bd3cnav3", "bdxw", "gps", "glo", "gal",
                         "prangeb", "posdatab"}
  /\ MaxSats \in 0 .. 63 /\ MaxSignals \in 0 .. 15

-----------------------------------------------------------------------------
(* Fields *)

\* bits read, bits stepped over, bytes of the member assigned or of what is cast to, and the
\* C type the value goes through
F(bits, step, size, as) == [bits |-> bits, step |-> step, size |-> size, as |-> as]

\* read_bits_be
U8(bits, step)  == F(bits, step, 1, "uint8")
U16(bits, step) == F(bits, step, 2, "uint16")
U32(bits, step) == F(bits, step, 4, "uint32")
UD(bits, step)  == F(bits, step, 8, "uint32")  \* scale_pow2_u, or a cast to double
HD(bits, step)  == F(bits, step, 8, "uint16")  \* scale_pow2_u of what is cast to uint16_t

\* read_signed_bits_be, which extends the sign to 32 bits and returns a uint32_t
I8(bits, step)  == F(bits, step, 1, "int8")
I16(bits, step) == F(bits, step, 2, "int16")
SD(bits, step)  == F(bits, step, 8, "int32")   \* scale_pow2 and the like
ID(bits, step)  == F(bits, step, 8, "int16")   \* scale_pow2 of what is cast to int16_t
WD(bits, step)  == F(bits, step, 8, "word")    \* (double) of the uint32_t

\* read_signed_bits_be64, which returns an int64_t, and read_bits_be64
LD(bits, step)  == F(bits, step, 8, "int64")
QD(bits, step)  == F(bits, step, 8, "uint64")  \* scale_pow2_u64
RD(bits, step)  == F(bits, step, 8, "raw")     \* scale_pow2_64 of the (int64_t) of it

\* members that the network does not get; reserved bits that are only stepped over
Spare(bits, step, size) == F(bits, step, size, "spare")
Skip(step) == Spare(0, step, 0)
Local(bits, step) == F(bits, step, 2, "local") \* part of the value the next field completes
Crc24 == Spare(24, 24, 4)                      \* the last: the counter is not used after it

Times(n, field) == [i \in 1 .. n |-> field]

-----------------------------------------------------------------------------
(* The decoders, from the end of the head on *)

Moment == <<U16(12, 12), U32(20, 20)>>     \* gps_week_count, gps_tow_s

\* gps_m0: 22 of 32 bits are read
MeanAnomaly == SD(22, 32)

Gps == Moment \o <<U8(6, 6), U8(4, 4), U8(6, 6), U16(10, 10), U16(16, 16), U16(16, 16),
                   SD(22, 22), SD(16, 16), SD(8, 8), U8(8, 8), U16(10, 10), SD(14, 14)>>
              \o Times(7, SD(16, 16)) \o <<MeanAnomaly, UD(32, 32), UD(32, 32)>>
              \o Times(3, SD(32, 32)) \o <<SD(24, 24), SD(8, 8), U8(2, 2), U8(1, 1), U8(1, 1),
                                           Spare(4, 4, 1), Crc24>>

Bd2 == Moment \o <<U8(6, 6), U8(4, 4), U8(1, 1), U16(13, 13), U32(17, 17), U32(17, 17),
                   SD(24, 24), SD(22, 22), SD(11, 11), U8(5, 5), U8(5, 5), SD(14, 14)>>
              \o Times(6, SD(18, 18)) \o <<SD(16, 16), SD(32, 32), UD(32, 32), UD(32, 32)>>
              \o Times(3, SD(32, 32)) \o <<SD(24, 24), SD(10, 10), SD(10, 10), Spare(5, 5, 1),
                                           Crc24>>

\* Mutants of Bd3Orbit: one byte holds the week; a field is stepped over by 24 bits.
Bd3Orbit_short_week == <<U8(6, 6), U8(3, 3), U8(13, 13), U32(11, 11), U32(11, 11), LD(25, 25),
                         LD(22, 22), LD(11, 11), U8(8, 8), U16(16, 16), LD(15, 15)>>
Bd3Orbit_miscounted == <<U8(6, 6), U8(3, 3), U16(13, 13), U32(11, 11), U32(11, 11), LD(25, 24),
                         LD(22, 22), LD(11, 11), U8(8, 8), U16(16, 16), LD(15, 15)>>

\* the beginning that the three BDS-3 decoders share
Bd3Orbit == <<U8(6, 6), U8(3, 3), U16(13, 13), U32(11, 11), U32(11, 11), LD(25, 25), LD(22, 22),
              LD(11, 11), U8(8, 8), U16(16, 16), LD(15, 15)>>

\* and what follows it: the harmonic terms, the elements at the reference time
Bd3Terms == <<LD(24, 24), LD(24, 24), LD(21, 21), LD(21, 21), LD(16, 16), LD(16, 16),
              LD(17, 17), LD(23, 23), RD(33, 33), QD(33, 33), RD(26, 26), LD(25, 25),
              RD(33, 33), RD(33, 33), RD(33, 33), LD(19, 19)>>

Bd3 == Moment \o Bd3Orbit \o Bd3Terms \o Times(3, LD(12, 12)) \o <<Spare(2, 2, 1), Crc24>>

Bd3Cnav2 == Moment \o Bd3Orbit \o Bd3Terms \o Times(3, LD(12, 12)) \o <<Spare(2, 2, 1), Crc24>>

Bd3Cnav3 == Moment \o Bd3Orbit \o Bd3Terms \o <<LD(12, 12), Spare(26, 26, 4), Crc24>>

Bdxw == Moment \o <<U8(8, 8), U8(2, 2), U16(13, 13), U32(16, 16), U32(17, 17), SD(27, 27),
                    SD(22, 22), U8(4, 4), U8(3, 3)>>
               \o <<SD(26, 26), SD(26, 26), SD(25, 25), SD(25, 25)>> \o Times(4, SD(21, 21))
               \o <<SD(26, 26), SD(26, 26), SD(27, 27), LD(33, 33), LD(36, 36), QD(30, 30),
                    SD(27, 27), SD(22, 22), SD(22, 22), LD(31, 31), LD(36, 36), SD(26, 26),
                    LD(36, 36), Spare(36, 36, 8), Crc24>>

GloAxis == <<SD(27, 27), SD(24, 24), SD(5, 5)>>

Glo == Moment \o <<U8(6, 6), U8(5, 5), U8(1, 1), U8(5, 5), U16(11, 11), U16(12, 12), U8(7, 7),
                   SD(11, 11), SD(22, 22)>>
              \o GloAxis \o GloAxis \o GloAxis \o <<Crc24>>

Gal == Moment \o <<U8(6, 6), U8(8, 8), U8(2, 2), U8(1, 1), U8(2, 2), U8(1, 1), U16(12, 12),
                   U32(14, 14), U32(14, 14), SD(31, 31), SD(21, 21), SD(6, 6), U16(10, 10),
                   SD(14, 14)>>
              \o Times(7, SD(16, 16)) \o <<SD(32, 32), UD(32, 32), UD(32, 32)>>
              \o Times(3, SD(32, 32)) \o <<SD(24, 24), SD(10, 10), SD(10, 10), U8(2, 2),
                                           Spare(4, 4, 1), Crc24>>

Posdatab == <<U8(3, 3), U16(13, 13), UD(32, 32), I8(8, 8), U8(4, 4), U8(6, 6), U8(6, 6),
              LD(36, 36), LD(36, 36), LD(30, 30)>>
            \o Times(6, WD(16, 16)) \o Times(3, WD(18, 18)) \o Times(6, WD(12, 12))
            \o <<U8(8, 8), U8(8, 8), UD(16, 16), U8(1, 1), U8(3, 3)>> \o Times(4, WD(16, 16))
            \o <<Spare(32, 32, 4), Spare(32, 32, 4), Crc24>>

Signal == <<U8(6, 6), U8(4, 4), ID(15, 15), SD(22, 22), ID(15, 15), HD(13, 13), U8(1, 1),
            Skip(4)>>

\* signals[i]: the signal_count read for satellite i, whose number is sat_count
Prangeb(signals) ==
  LET Sat(n) == <<U8(6, 6), U8(4, 4), Local(8, 8), HD(10, 10), I16(14, 14), Skip(6)>>
                  \o FlattenSeq(Times(n, Signal))
  IN  Moment \o <<U8(7, 7), U8(1, 1), U8(3, 3), U8(6, 6), Skip(7)>>
             \o FlattenSeq([i \in 1 .. Len(signals) |-> Sat(signals[i])]) \o <<Crc24>>

\* out->head
HeadBytes(msg) == IF msg = "posdatab" THEN 12 ELSE 8

Fields(rec) == CASE rec.msg = "gps"      -> Gps
                 [] rec.msg = "bd2"      -> Bd2
                 [] rec.msg = "bd3"      -> Bd3
                 [] rec.msg = "bd3cnav2" -> Bd3Cnav2
                 [] rec.msg = "bd3cnav3" -> Bd3Cnav3
                 [] rec.msg = "bdxw"     -> Bdxw
                 [] rec.msg = "glo"      -> Glo
                 [] rec.msg = "gal"      -> Gal
                 [] rec.msg = "posdatab" -> Posdatab
                 [] rec.msg = "prangeb"  -> Prangeb(rec.signals)

-----------------------------------------------------------------------------
(* The structs: sizes of the members that follow head *)

GPSEPHB_Decoded_t == <<2, 4, 1, 1, 1, 2, 2, 2, 8, 8, 8, 1, 2>> \o Times(16, 8) \o <<1, 1, 1, 1, 4>>

BD2EPHB_Decoded_t == <<2, 4, 1, 1, 1, 2, 4, 4, 8, 8, 8, 1, 1>> \o Times(17, 8) \o <<1, 4>>

BD3EPHB_Decoded_t == <<2, 4, 1, 1, 2, 4, 4, 8, 8, 8, 1, 2>> \o Times(20, 8) \o <<1, 4>>

BD3CNAV2EPHB_Decoded_t == <<2, 4, 1, 1, 2, 4, 4, 8, 8, 8, 1, 2>> \o Times(20, 8) \o <<1, 4>>

BD3CNAV3EPHB_Decoded_t == <<2, 4, 1, 1, 2, 4, 4, 8, 8, 8, 1, 2>> \o Times(18, 8) \o <<4, 4>>

BDXWEPHB_Decoded_t == <<2, 4, 1, 1, 2, 4, 4, 8, 8, 1, 1>> \o Times(22, 8) \o <<4>>

GLOEPHB_Decoded_t == <<2, 4, 1, 1, 1, 1, 2, 2, 1>> \o Times(11, 8) \o <<4>>

GALEPHB_Decoded_t == <<2, 4, 1, 1, 1, 1, 1, 1, 2, 4, 4, 8, 8, 8, 2>> \o Times(17, 8) \o <<1, 1, 4>>

POSDATAB_Decoded_t == <<1, 2, 8, 1, 1, 1, 1>> \o Times(18, 8) \o <<1, 1, 8, 1, 1>> \o Times(4, 8)
                        \o <<4, 4, 4>>

\* without the unused elements of its arrays
PRANGEB_Decoded_t(signals) ==
  LET sat_info(n) == <<1, 1, 8, 2>> \o FlattenSeq(Times(n, <<1, 1, 8, 8, 8, 8, 1>>))
  IN  <<2, 4, 1, 1, 1, 1>> \o FlattenSeq([i \in 1 .. Len(signals) |-> sat_info(signals[i])]) \o <<4>>

Struct(rec) == CASE rec.msg = "gps"      -> GPSEPHB_Decoded_t
                 [] rec.msg = "bd2"      -> BD2EPHB_Decoded_t
                 [] rec.msg = "bd3"      -> BD3EPHB_Decoded_t
                 [] rec.msg = "bd3cnav2" -> BD3CNAV2EPHB_Decoded_t
                 [] rec.msg = "bd3cnav3" -> BD3CNAV3EPHB_Decoded_t
                 [] rec.msg = "bdxw"     -> BDXWEPHB_Decoded_t
                 [] rec.msg = "glo"      -> GLOEPHB_Decoded_t
                 [] rec.msg = "gal"      -> GALEPHB_Decoded_t
                 [] rec.msg = "posdatab" -> POSDATAB_Decoded_t
                 [] rec.msg = "prangeb"  -> PRANGEB_Decoded_t(rec.signals)

\* the fields that a member is assigned from
Assigned(fields) ==
  FlattenSeq([i \in 1 .. Len(fields) |->
                IF fields[i].size > 0 /\ fields[i].as # "local" THEN <<fields[i]>> ELSE <<>>])

\* the sum of a sequence of numbers
Total(numbers) ==
  LET sum[i \in 0 .. Len(numbers)] == IF i = 0 THEN 0 ELSE sum[i - 1] + numbers[i]
  IN  sum[Len(numbers)]

-----------------------------------------------------------------------------
(* A record *)

\* top: whether the first bit of each of its fields is set, the sign of a signed one (bound:
\*      the other bits are not); longer: bytes it has more, or less, than its decoder reads
Record == [msg: Messages, signals: BoundedSeq(0 .. MaxSignals, MaxSats), top: BOOLEAN,
           longer: {-1, 0, 1}]

Bits(fields) == Total([i \in 1 .. Len(fields) |-> fields[i].step])

\* packet->length, which counts neither the head nor the check sum
Length(r) == (Bits(Fields(r)) - Crc24.bits) \div 8 + r.longer

PAYLOAD_LEN == [bd2 |-> 67, bd3 |-> 76, bd3cnav3 |-> 76, gps |-> 64, gal |-> 66, posdatab |-> 70]

\* Mutant of LongEnough: any record that is not empty is decoded.
LongEnough_any(r) == Length(r) > 0

\* the kinds of which it is compared: BD3CNAV3EPHB_PAYLOAD_LEN is not used
Compared == DOMAIN PAYLOAD_LEN \ {"bd3cnav3"}

LongEnough(r) == Length(r) >= (IF r.msg \in Compared THEN PAYLOAD_LEN[r.msg] ELSE 1)

VARIABLES rec,  \* the record found last, <<>> before the first
          bit,  \* the decoder's bit counter
          out   \* what was read so far: where, how, and what came of it

decodeVars == <<rec, bit, out>>

DecodeInit == rec = <<>> /\ bit = 0 /\ out = <<>>

Done == IF rec = <<>> THEN TRUE ELSE Len(out) = Len(Fields(rec))

\* the scanner found a record and its decoder is called
DecodeRecord(r) ==
  /\ Done
  /\ LongEnough(r)
  /\ rec' = r
  /\ bit' = 8 * HeadBytes(r.msg)
  /\ out' = <<>>

\* Numbers are the sets of the positions of their one-bits, in two's complement.
Extended(ones, from, to) == IF from - 1 \in ones THEN ones \cup (from .. to - 1) ELSE ones

Width == [uint8 |-> 8, uint16 |-> 16, uint32 |-> 32, uint64 |-> 64, int8 |-> 8, int16 |-> 16,
          int32 |-> 32, int64 |-> 64, raw |-> 64, word |-> 32, spare |-> 64, local |-> 16]
ReadAsSigned == {"int8", "int16", "int32", "int64", "word"}
UsedAsSigned == {"int8", "int16", "int32", "int64", "raw"}

\* Mutant of ReadAs: no sign is extended.
ReadAs_unextended(f, ones) == ones

\* what the reader makes of the field
ReadAs(f, ones) == IF f.as \in ReadAsSigned THEN Extended(ones, f.bits, 64) ELSE ones

\* what becomes of that in the type it goes through
Converted(f, ones) ==
  LET w == Width[f.as]
      kept == {p \in ones : p < w}
  IN  IF f.as \in UsedAsSigned THEN Extended(kept, w, 64) ELSE kept

\* what the record holds in a field
Ones(f, r) == IF r.top /\ f.bits > 0 THEN {f.bits - 1} ELSE {}

ReadField ==
  /\ ~Done
  /\ LET f == Fields(rec)[Len(out) + 1]
     IN  /\ out' = Append(out, [at |-> bit, field |-> f,
                                value |-> Converted(f, ReadAs(f, Ones(f, rec)))])
         /\ bit' = bit + f.step
  /\ UNCHANGED rec

DecodeNext == \/ \E r \in Record : (r.msg = "prangeb" \/ r.signals = <<>>) /\ DecodeRecord(r)
              \/ ReadField

DecodeSpec == DecodeInit /\ [][DecodeNext]_decodeVars

-----------------------------------------------------------------------------
(* What the network gets of an ephemeris: net_send_eph(..., &eph + 8, sizeof(eph) - trim) *)

\* Mutant of Trim: the same for all.
Trim_same(msg) == 13

Trim(msg) == CASE msg = "bd3cnav3" -> 16
               [] msg = "bdxw"     -> 20
               [] msg = "glo"      -> 12
               [] OTHER            -> 13

SentBytes(msg) ==
  HeadBytes(msg) + Total(Struct([msg |-> msg])) - Trim(msg)

-----------------------------------------------------------------------------
(* Properties *)

IsSent(msg) == msg \notin {"prangeb", "posdatab"}

\* No bit is read beyond the end of a record, where the next one or an older one is in the
\* buffer, if the length of its kind is compared (gnss_ephb.c:181-400): the other five are
\* decoded, and sent on, whatever they are cut to.  And the last field read is the check
\* sum, where the scanner found it, if the record has the stated length; of one without a
\* stated length, it is at least on a byte (gnss_ephb.c:177-179, 376-380).
ReadWithin ==
  rec # <<>> =>
    /\ rec.msg \in Compared =>
         \A i \in 1 .. Len(out) :
           out[i].at + out[i].field.bits <= 8 * (HeadBytes(rec.msg) + Length(rec)) + Crc24.bits
    /\ Done => LET at == out[Len(out)].at
               IN  IF rec.msg \in DOMAIN PAYLOAD_LEN
                     THEN at = 8 * (HeadBytes(rec.msg) + PAYLOAD_LEN[rec.msg])
                     ELSE at % 8 = 0

\* No value is cut: every field fits what it is cast to and that the member it is assigned
\* to, in the order of the struct, and no member is left over
\* (core/inc/gnss_func.h:115-527, gnss_ephb_decode.c:160-909).
FieldsFit ==
  rec # <<>> =>
    LET read == Assigned([i \in 1 .. Len(out) |-> out[i].field])
    IN  /\ \A k \in 1 .. Len(read) : read[k].bits <= 8 * read[k].size /\ read[k].size <= Struct(rec)[k]
        /\ Done => Len(read) = Len(Struct(rec))

\* Every bit of a record is read by one field: the counter goes on by the bits that were
\* read, in each of the pairs of numbers that are written by hand, but where reserved bits
\* are not read at all (gnss_ephb_decode.c:160-909).  The one exception is the mean anomaly
\* of GPS, of which ten bits are not read (:593-594).
EveryBitRead ==
  \A i \in 1 .. Len(out) : LET next == IF i < Len(out) THEN out[i + 1].at ELSE bit
                           IN  \/ out[i].at + out[i].field.bits = next
                               \/ out[i].field.bits = 0 \/ out[i].field = MeanAnomaly

\* The fields whose sign is lost, by their places.  m0, deltaA, omega0, i0 and omega of the
\* three BDS-3 messages are read as they are and cast to int64_t
\* (gnss_ephb_decode.c:285-297, 364-376, 441-453); the velocities, angles and deviations of
\* POSDATAB are extended to 32 bits, and a uint32_t cast to double (:856-894).
SignsLost == ({"bd3", "bd3cnav2", "bd3cnav3"} \X {22, 24, 26, 27, 28})
               \cup ({"posdatab"} \X ((11 .. 25) \cup (31 .. 34)))

\* A value is what the bits of its field mean: two's complement where the code treats it as
\* signed, in its reader or in the type it goes through, and cut nowhere
\* (gnss_ephb_decode.c:35-158).  In the fields of SignsLost, and there only, a negative
\* number is not.
ValuesKept ==
  \A i \in 1 .. Len(out) :
    LET f == out[i].field
        meant == IF f.as \in ReadAsSigned \cup UsedAsSigned
                   THEN Extended(Ones(f, rec), f.bits, 64)
                   ELSE Ones(f, rec)
    IN  out[i].value = meant <=> ~(rec.top /\ <<rec.msg, i>> \in SignsLost)

\* The network gets every member of an ephemeris but the spare ones at its ends: the head,
\* the reserved bits and the check sum (gnss_ephb.c:200, 260, 279, 320).
SentWhole ==
  rec # <<>> /\ Done /\ IsSent(rec.msg) =>
    LET read == Assigned([i \in 1 .. Len(out) |-> out[i].field])
        End(k) == Total(SubSeq(Struct(rec), 1, k))
    IN  \A k \in 1 .. Len(read) : read[k].as # "spare" <=> End(k) <= SentBytes(rec.msg)
==============================================================================
