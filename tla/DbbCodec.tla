------------------------------- MODULE DbbCodec -------------------------------
(***************************************************************************)
(* The text encodings of the DBB module's commands and reports             *)
(* (core/src/dbb_handle.c:18-283, 361-468) and the buffer a downlink is    *)
(* decoded into (:801-857), and the two forms of a short message: SUBMIT,  *)
(* in which one is sent (:470-528), and DELIVER, in which it comes (:530-  *)
(* 609, 734-799).  A +DLNETDATA= report carries bytes as BASE64 or as      *)
(* hexadecimal text, a message is hexadecimal text, and telephone numbers  *)
(* are swapped decimal digits.                                             *)
(*                                                                         *)
(* A character is its value as a digit of the encoding, or one of the      *)
(* marks below: which letter stands for which digit is left out.           *)
(***************************************************************************)
EXTENDS Naturals, Sequences, SequencesExt

CONSTANTS Bytes,    \* bytes that are sent
          MaxBytes, \* bound: bytes in a downlink
          RawSize,  \* sizeof(dbb_ctrl.downlink_raw)
          TextSize, \* characters of a downlink's text that are looked at: 1023
          Charsets, \* encodings the network uses
          Numbers,  \* telephone numbers a message is written to
          SmsTexts, \* texts of messages, sequences of UCS-2 characters
          Centres,  \* addresses of service centres that messages come with
          UdSize    \* DBB_MAX_SMS_UD_BYTES

Pad == 64    \* "="
Space == 65  \* what isspace accepts
Other == 66  \* any other character
Plus == 10   \* in a telephone number

\* the digits of a telephone number
Digits(number) == SelectSeq(number, LAMBDA c : c # Plus)

ASSUME CodecAssumption ==
  /\ Bytes \subseteq 0 .. 255 /\ MaxBytes \in Nat
  /\ RawSize \in Nat \ {0}
  /\ TextSize \in Nat /\ TextSize % 4 = 3
  /\ Charsets \subseteq {"HEX", "BASE64"}
  /\ \A n \in Numbers : n \in Seq(0 .. Plus) /\ Digits(n) \in Seq(0 .. 9) /\ Len(Digits(n)) \in 1 .. 31
  /\ \A t \in SmsTexts : t \in Seq(Nat) /\ \A i \in 1 .. Len(t) : t[i] < 256 * 256
  /\ \A c \in Centres : c \in Seq(0 .. 255) /\ Len(c) <= 255
  /\ UdSize \in 0 .. 140

-----------------------------------------------------------------------------
(* BASE64: groups of three bytes are quartets of six-bit digits *)

\* the g-th group of three bytes, what is not there being 0
Triple(bytes, g) ==
  LET Byte(i) == IF i <= Len(bytes) THEN bytes[i] ELSE 0
  IN  (Byte(3*g - 2) * 256 + Byte(3*g - 1)) * 256 + Byte(3*g)

\* Mutant of GroupDigits: the pad of a short group is a zero digit.
GroupDigits_unpadded(bytes, g) ==
  LET t == Triple(bytes, g)
  IN  <<((t \div 64) \div 64) \div 64, ((t \div 64) \div 64) % 64, (t \div 64) % 64, t % 64>>

GroupDigits(bytes, g) ==
  LET t == Triple(bytes, g)
  IN  <<((t \div 64) \div 64) \div 64, ((t \div 64) \div 64) % 64,
        IF 3*g - 1 <= Len(bytes) THEN (t \div 64) % 64 ELSE Pad,
        IF 3*g <= Len(bytes) THEN t % 64 ELSE Pad>>

Base64Encode(bytes) ==
  FlattenSeq([g \in 1 .. (Len(bytes) + 2) \div 3 |-> GroupDigits(bytes, g)])

\* the bytes of one quartet; a pad counts wherever it stands
QuartetBytes(quartet) ==
  LET Digit(k) == IF quartet[k] = Pad THEN 0 ELSE quartet[k]
      triple == ((Digit(1) * 64 + Digit(2)) * 64 + Digit(3)) * 64 + Digit(4)
      pads   == {k \in 1 .. 4 : quartet[k] = Pad}
  IN  SubSeq(<<(triple \div 256) \div 256, (triple \div 256) % 256, triple % 256>>, 1,
             IF pads = {} THEN 3 ELSE IF \E k \in 1 .. 4 : pads = {k} THEN 2 ELSE 1)

\* white space is passed over
Solid(text) ==
  FlattenSeq([i \in 1 .. Len(text) |-> IF text[i] = Space THEN <<>> ELSE <<text[i]>>])

QuartetAt(digits, q) ==
  SubSeq(digits, 4*q - 3, IF 4*q <= Len(digits) THEN 4*q ELSE Len(digits))

\* ok: the return value; bytes: what was written, which a failure does not take back
Base64Decode(text) ==
  LET digits  == Solid(text)
      Good(q) == Len(QuartetAt(digits, q)) = 4 /\ Other \notin ToSet(QuartetAt(digits, q))
      More(q) == Good(q) /\ Pad \notin ToSet(QuartetAt(digits, q))
      \* the last quartet that is looked at
      last == CHOOSE q \in 1 .. (Len(digits) \div 4) + 1 : ~More(q) /\ \A p \in 1 .. q - 1 : More(p)
      ok   == Good(last) \/ QuartetAt(digits, last) = <<>>
      bytes == FlattenSeq([q \in 1 .. (IF Good(last) THEN last ELSE last - 1) |->
                             QuartetBytes(QuartetAt(digits, q))])
  IN  IF Len(bytes) > RawSize THEN [ok |-> FALSE, bytes |-> SubSeq(bytes, 1, RawSize)]
                              ELSE [ok |-> ok, bytes |-> bytes]

-----------------------------------------------------------------------------
(* Hexadecimal text *)

HexEncode(bytes) == FlattenSeq([i \in 1 .. Len(bytes) |-> <<bytes[i] \div 16, bytes[i] % 16>>])

\* hex_to_bytes: the whole text is checked before a byte is written
HexDecode(text, size) ==
  IF /\ text # <<>> /\ Len(text) % 2 = 0
     /\ \A i \in 1 .. Len(text) : text[i] <= 15
     /\ Len(text) \div 2 <= size
    THEN [ok |-> TRUE, bytes |-> [i \in 1 .. Len(text) \div 2 |-> 16 * text[2*i - 1] + text[2*i]]]
    ELSE [ok |-> FALSE, bytes |-> <<>>]

Encode(chset, bytes) == IF chset = "HEX" THEN HexEncode(bytes) ELSE Base64Encode(bytes)

Decode(chset, text) == IF chset = "HEX" THEN HexDecode(text, RawSize) ELSE Base64Decode(text)

-----------------------------------------------------------------------------
(* Telephone numbers *)

\* two digits to a byte, the first of them low; an odd one out is filled up with 15
EncodeNumber(number) ==
  LET digits == Digits(number)
      n == Len(digits)
  IN  [toa |-> IF Plus \in ToSet(number) \/ (n >= 11 /\ digits[1] = 8 /\ digits[2] = 6)
                 THEN 145 ELSE 129,
       digits |-> n,
       bcd |-> [i \in 1 .. (n + 1) \div 2 |->
                  16 * (IF 2*i <= n THEN digits[2*i] ELSE 15) + digits[2*i - 1]]]

DecodeNumber(bcd, n) ==
  LET nibbles == FlattenSeq([i \in 1 .. Len(bcd) |-> <<bcd[i] % 16, bcd[i] \div 16>>])
  IN  SubSeq(nibbles, 1, n)

-----------------------------------------------------------------------------
(* Short messages *)

\* utf8_to_ucs2be_iconv and back
Ucs2(text) == FlattenSeq([i \in 1 .. Len(text) |-> <<text[i] \div 256, text[i] % 256>>])
FromUcs2(ud) == [i \in 1 .. Len(ud) \div 2 |-> 256 * ud[2*i - 1] + ud[2*i]]

\* dbb_build_sms_submit_pdu: no centre, SUBMIT, reference 0, the address, UCS-2, the text
SubmitPdu(target, text) ==
  LET to == EncodeNumber(target)
      ud == Ucs2(text)
  IN  <<0, 1, 0, to.digits, to.toa>> \o to.bcd \o <<0, 8, Len(ud)>> \o ud

\* external: what becomes of a SUBMIT on its way, with its target as its origin
DeliverPdu(submit, centre, dcs) ==
  LET n       == (submit[4] + 1) \div 2
      address == SubSeq(submit, 4, 5 + n)
      data    == SubSeq(submit, 8 + n, Len(submit))
      stamp   == [i \in 1 .. 7 |-> 0]
  IN  <<Len(centre)>> \o centre \o <<4>> \o address \o <<0, dcs>> \o stamp \o data

Nothing == [from |-> <<>>, text |-> <<>>]

\* "[unsupported DCS ...]", which is no text of UCS-2 characters
Unsupported == <<256 * 256>>

\* Mutant of ReadDeliver: the length of the text is not compared with what there is.
ReadDeliver_any_length(bytes) ==
  LET type   == 2 + bytes[1]
      digits == bytes[type + 1]
      oa     == type + 3
      n      == (digits + 1) \div 2
      udl_at == oa + n + 9
      there  == SubSeq(bytes, udl_at + 1, Len(bytes))
  IN  IF Len(bytes) < 8 \/ type + 2 > Len(bytes) \/ udl_at > Len(bytes)
        THEN Nothing
        ELSE [from |-> DecodeNumber(SubSeq(bytes, oa, oa + n - 1), digits),
              text |-> IF bytes[oa + n + 1] = 8 THEN FromUcs2(there) ELSE Unsupported]

\* dbb_decode_sms_deliver_pdu
ReadDeliver(bytes) ==
  LET type   == 2 + bytes[1]
      digits == bytes[type + 1]
      oa     == type + 3
      n      == (digits + 1) \div 2
      from   == DecodeNumber(SubSeq(bytes, oa, oa + n - 1), digits)
      udl_at == oa + n + 9
      udl    == bytes[udl_at]
      dcs    == bytes[oa + n + 1]
  IN  IF \/ Len(bytes) < 8 \/ type + 2 > Len(bytes) \/ udl_at > Len(bytes)
         \/ \E i \in 1 .. digits : from[i] > 9
         \/ udl_at + udl > Len(bytes)
         \/ dcs = 8 /\ udl % 2 = 1
        THEN Nothing
        ELSE [from |-> from,
              text |-> IF dcs = 8 THEN FromUcs2(SubSeq(bytes, udl_at + 1, udl_at + udl)) ELSE Unsupported]

-----------------------------------------------------------------------------
VARIABLES downlink_raw,     \* the whole array
          downlink_raw_len,
          downlink_text,    \* up to its terminator
          latest,           \* history: the bytes of the last report, if it was to be stored
          stored,           \* history: of the last one that was, or what a damaged one gave
          sms_target,       \* history: the number a message was written to
          sms_text,         \* history: and its text
          submit,           \* that message as it is sent
          cmgs_len,         \* the length in the command that announces it
          received          \* what was read of it where it came, or Nothing

downlinkVars == <<downlink_raw, downlink_raw_len, downlink_text, latest, stored>>
smsVars == <<sms_target, sms_text, submit, cmgs_len, received>>
codecVars == <<downlinkVars, smsVars>>

CodecInit ==
        /\ downlink_raw = [i \in 1 .. RawSize |-> 0]
        /\ downlink_raw_len = 0
        /\ downlink_text = <<>>
        /\ latest = <<>> /\ stored = <<>>
        /\ sms_target = <<>> /\ sms_text = <<>>
        /\ submit = <<>> /\ cmgs_len = 0
        /\ received = Nothing

\* sscanf's %1023[^"]
Seen(text) == SubSeq(text, 1, IF Len(text) <= TextSize THEN Len(text) ELSE TextSize)

\* dbb_handle_dlnetdata, for one report.  A longer text is cut, and decoded as it then is.
\* What it decodes to fits downlink_text, which has room for a terminator more than
\* downlink_raw.
TakeReport(chset, text) ==
  LET got == Decode(chset, Seen(text))
      n   == Len(got.bytes)
  IN  /\ text # <<>>
      /\ downlink_raw' = [i \in 1 .. RawSize |-> IF i <= n THEN got.bytes[i] ELSE downlink_raw[i]]
      /\ IF got.ok
           THEN downlink_raw_len' = n /\ downlink_text' = got.bytes
           ELSE UNCHANGED <<downlink_raw_len, downlink_text>>

\* The bytes are to be stored if there is room for them, and for their text; otherwise
\* nothing is.
Expect(text, bytes) ==
  IF Len(text) <= TextSize /\ Len(bytes) <= RawSize
    THEN latest' = bytes /\ stored' = bytes
    ELSE latest' = <<>> /\ UNCHANGED stored

WholeReport(chset, bytes) ==
  LET text == Encode(chset, bytes)
  IN  TakeReport(chset, text) /\ Expect(text, bytes)

\* BASE64 text may be broken by white space anywhere
Broken(bytes, k) ==
  LET whole == Encode("BASE64", bytes)
      text  == InsertAt(whole, k + 1, Space)
  IN  k < Len(whole) /\ TakeReport("BASE64", text) /\ Expect(text, bytes)

\* the report was cut by the end of a capture, or has a wrong character
Damaged(chset, bytes, k) ==
  LET text == Encode(chset, bytes)
  IN  /\ k < Len(text)
      /\ \/ TakeReport(chset, SubSeq(text, 1, k))
         \/ TakeReport(chset, [text EXCEPT ![k + 1] = Other])
      /\ latest' = <<>> /\ stored' = downlink_text'

Payloads == BoundedSeq(Bytes, MaxBytes)

\* dbb_build_sms_submit_pdu; iconv refuses a text that does not fit
WriteSms(target, words) ==
  /\ Len(Ucs2(words)) <= UdSize
  /\ sms_target' = target /\ sms_text' = words
  /\ submit' = SubmitPdu(target, words)
  /\ cmgs_len' = Len(submit') - 1
  /\ received' = Nothing

\* dbb_handle_sms_cmt: of the first k characters, as a capture may end within the report
ReceiveSms(centre, dcs) ==
  /\ submit # <<>>
  /\ LET hex == HexEncode(DeliverPdu(submit, centre, dcs))
     IN  \E k \in 1 .. Len(hex) :
           LET got == HexDecode(SubSeq(hex, 1, k), 256)
           IN  received' = IF got.ok THEN ReadDeliver(got.bytes) ELSE Nothing
  /\ UNCHANGED <<sms_target, sms_text, submit, cmgs_len>>

DownlinkNext ==
  \/ \E chset \in Charsets, bytes \in Payloads :
       WholeReport(chset, bytes) \/ \E k \in 0 .. 2 * MaxBytes : Damaged(chset, bytes, k)
  \/ /\ "BASE64" \in Charsets
     /\ \E bytes \in Payloads, k \in 0 .. 2 * MaxBytes : Broken(bytes, k)

SmsNext ==
  \/ sms_target = <<>> /\ \E target \in Numbers, words \in SmsTexts : WriteSms(target, words)
  \/ \E centre \in Centres, dcs \in {0, 8} : ReceiveSms(centre, dcs)

\* Messages and downlinks have nothing in common: a behaviour has only one of them (bound).
CodecNext ==
  \/ sms_target = <<>> /\ DownlinkNext /\ UNCHANGED smsVars
  \/ latest = <<>> /\ (\A i \in 1 .. RawSize : downlink_raw[i] = 0) /\ SmsNext /\ UNCHANGED downlinkVars

CodecSpec == CodecInit /\ [][CodecNext]_codecVars

-----------------------------------------------------------------------------
(* Properties *)

\* A downlink that came whole is stored as it was sent, in either encoding and wherever its
\* text was broken, if there is room for its bytes and no more than 1023 characters carry
\* them.  Of a longer one nothing is taken for the whole: the text that was stored before
\* stays (dbb_handle.c:62-188, 233-264, 801-857).
StoredAsSent ==
  /\ downlink_text = stored
  /\ latest # <<>> => SubSeq(downlink_raw, 1, downlink_raw_len) = latest

\* A message is read with the number and the text it was written with, whatever the length
\* of either and whichever centre it came by, or not at all: one that is cut anywhere is not
\* taken for a shorter one.  Its announced length counts all of it but the centre, and a
\* number with a plus is international (dbb_handle.c:361-610).
MessageKept ==
  sms_target # <<>> =>
    /\ received = Nothing \/ (/\ received.from = Digits(sms_target)
                              /\ received.text \in {sms_text, Unsupported})
    /\ cmgs_len = Len(submit) - 1 - submit[1]
    /\ Plus \in ToSet(sms_target) => submit[5] = 145
==============================================================================
