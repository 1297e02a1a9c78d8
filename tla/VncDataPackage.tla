--------------------------- MODULE VncDataPackage ---------------------------
(***************************************************************************)
(* A package and its wire image (VncDataPackage.cpp), as operators: the    *)
(* five create() calls, makeNewProtocolBuffer, the constructor that reads  *)
(* a wire image, and the getters of a key-value package.                   *)
(*                                                                         *)
(* A byte is one of Byte values, so that a word of four stays small; a     *)
(* digit is its own byte, Minus is the sign.  A text is a sequence of      *)
(* bytes.  A key of a JSON document is one byte and so is its value, which *)
(* is 0 for an empty text and for the number zero.                         *)
(***************************************************************************)
EXTENDS Integers, Sequences, SequencesExt

CONSTANTS Byte,           \* number of values of a byte: 256 in the program
          Minus,          \* the sign of a negative number
          Url, Path, Size, \* the keys "server-url", "tv-path", "file-size"
          Crc32(_)        \* the checksum of some bytes, compared by nobody

ASSUME ByteAssumption ==
  /\ Byte \in Nat /\ Byte > 10
  /\ {Minus, Url, Path, Size} \subseteq 10..(Byte - 1)
  /\ Url # Path /\ Url # Size /\ Path # Size

Word == Byte * Byte * Byte * Byte

CMD_ARGUMENT_TYPE_NONE == 0
CMD_ARGUMENT_TYPE_INT32 == 1
CMD_ARGUMENT_TYPE_STRING == 2
CMD_ARGUMENT_TYPE_KEYVALUE == 3

NoDocument == [key \in {} |-> 0]

(* A fresh VncPackContent.                                                 *)
VncPackContent ==
  [m_target |-> 0, m_source |-> 0, m_version |-> 1, m_tag |-> 0,
   m_command |-> 0, m_paramType |-> CMD_ARGUMENT_TYPE_NONE,
   m_bufParam |-> << >>, m_intParam |-> 0, m_jsonroot |-> NoDocument]
-----------------------------------------------------------------------------
(* Numbers.                                                                *)

(* htonl and memcpy: the most significant byte first.                      *)
BigEndian(v) ==
  LET high == v \div Byte
      higher == high \div Byte
  IN  <<(higher \div Byte) % Byte, higher % Byte, high % Byte, v % Byte>>

(* p[cnt] << 24 | ...: the word whose first byte is raw[at].               *)
Number(raw, at) ==
  ((raw[at] * Byte + raw[at + 1]) * Byte + raw[at + 2]) * Byte + raw[at + 3]

(* A word read as int, and an int stored in an unsigned.                   *)
Signed(v) == IF v >= Word \div 2 THEN v - Word ELSE v
Unsigned(i) == i % Word

Digits[n \in Nat] ==
  IF n < 10 THEN <<n>> ELSE Append(Digits[n \div 10], n % 10)

(* snprintf("%d"), and atoi: an optional sign and the digits behind it.    *)
Decimal(i) == IF i < 0 THEN <<Minus>> \o Digits[-i] ELSE Digits[i]

LeadingDigits(text) ==
  SelectInSeq(Append(text, Minus), LAMBDA b : b \notin 0..9) - 1

Atoi(text) ==
  LET negative == text # << >> /\ Head(text) = Minus
      body == IF negative THEN Tail(text) ELSE text
      value == FoldLeft(LAMBDA v, d : 10 * v + d, 0,
                        SubSeq(body, 1, LeadingDigits(body)))
  IN  IF negative THEN -value ELSE value
-----------------------------------------------------------------------------
(* jsoncpp: a document as text, key by key, and the document a text holds; *)
(* a text that is none leaves the document empty.                          *)
Write(doc) ==
  FlattenSeq([i \in 1..Byte |->
                IF i - 1 \in DOMAIN doc THEN <<i - 1, doc[i - 1]>>
                ELSE << >>])

Parse(text) ==
  LET at(key) == CHOOSE i \in 1..Len(text) : i % 2 = 1 /\ text[i] = key
      keys == {text[i] : i \in {k \in 1..Len(text) : k % 2 = 1}}
  IN  IF Len(text) % 2 = 0 THEN [key \in keys |-> text[at(key) + 1]]
      ELSE NoDocument
-----------------------------------------------------------------------------
(* The create() calls.                                                     *)
Create(source, target, cmd, tag) ==
  [VncPackContent EXCEPT !.m_source = source, !.m_target = target,
                         !.m_command = cmd, !.m_tag = tag]

CreateInt(source, target, cmd, tag, param) ==
  [Create(source, target, cmd, tag) EXCEPT
     !.m_paramType = CMD_ARGUMENT_TYPE_INT32,
     !.m_intParam = Unsigned(param)]

CreateText(source, target, cmd, tag, param) ==
  [Create(source, target, cmd, tag) EXCEPT
     !.m_paramType = CMD_ARGUMENT_TYPE_STRING, !.m_bufParam = param]

CreateMap(source, target, cmd, tag, params) ==
  [Create(source, target, cmd, tag) EXCEPT
     !.m_paramType = CMD_ARGUMENT_TYPE_KEYVALUE, !.m_jsonroot = params]

CreateJson(source, target, cmd, tag, param) ==
  [CreateMap(source, target, cmd, tag, Parse(param)) EXCEPT
     !.m_bufParam = param]

(* What the five calls can build of words: a parameter of one type only.   *)
IsCreated(c) ==
  LET words == {c.m_source, c.m_target, c.m_command, c.m_tag, c.m_intParam}
      type == c.m_paramType
  IN  /\ c = [Create(c.m_source, c.m_target, c.m_command, c.m_tag) EXCEPT
                !.m_paramType = type, !.m_bufParam = c.m_bufParam,
                !.m_intParam = c.m_intParam, !.m_jsonroot = c.m_jsonroot]
      /\ words \subseteq 0..(Word - 1)
      /\ type \in CMD_ARGUMENT_TYPE_NONE..CMD_ARGUMENT_TYPE_KEYVALUE
      /\ type = CMD_ARGUMENT_TYPE_NONE => c.m_bufParam = << >>
      /\ type # CMD_ARGUMENT_TYPE_INT32 => c.m_intParam = 0
      /\ type # CMD_ARGUMENT_TYPE_KEYVALUE => c.m_jsonroot = NoDocument
-----------------------------------------------------------------------------
(* The wire image.                                                         *)

(* makeNewProtocolBuffer prints the parameter into m_bufParam first.       *)
Printed(c) ==
  CASE c.m_paramType = CMD_ARGUMENT_TYPE_INT32 ->
         [c EXCEPT !.m_bufParam = Decimal(Signed(c.m_intParam))]
    [] c.m_paramType = CMD_ARGUMENT_TYPE_KEYVALUE ->
         [c EXCEPT !.m_bufParam = Write(c.m_jsonroot)]
    [] OTHER -> c

PKG_FIXED_PART_SIZE == 32

MakeNewProtocolBuffer(content) ==
  LET c == Printed(content)
      body == BigEndian(PKG_FIXED_PART_SIZE + Len(c.m_bufParam))
              \o BigEndian(c.m_target) \o BigEndian(c.m_source)
              \o <<c.m_version % Byte, c.m_paramType % Byte, 0, 0>>
              \o BigEndian(c.m_command) \o BigEndian(c.m_tag)
              \o BigEndian(Len(c.m_bufParam)) \o c.m_bufParam
  IN  body \o BigEndian(Crc32(body))

(* The fields behind the addresses; the parameter by its type.             *)
ContentOf(raw, target, source) ==
  LET type == raw[14]
      param == IF type = CMD_ARGUMENT_TYPE_NONE THEN << >>
               ELSE SubSeq(raw, 29, 28 + Number(raw, 25))
  IN  [m_target |-> target, m_source |-> source,
       m_version |-> raw[13], m_paramType |-> type,
       m_command |-> Number(raw, 17), m_tag |-> Number(raw, 21),
       m_bufParam |-> param,
       m_intParam |-> IF type = CMD_ARGUMENT_TYPE_INT32
                      THEN Unsigned(Atoi(param)) ELSE 0,
       m_jsonroot |-> IF type = CMD_ARGUMENT_TYPE_KEYVALUE
                      THEN Parse(param) ELSE NoDocument]

(* Faulty: the addresses in the order of the create() calls.               *)
DecodeSourceFirst(raw) ==
  IF Len(raw) <= 8 THEN VncPackContent
  ELSE ContentOf(raw, Number(raw, 9), Number(raw, 5))

(* The constructor from a wire image: the target comes first.              *)
Decode(raw) ==
  IF Len(raw) <= 8 THEN VncPackContent
  ELSE ContentOf(raw, Number(raw, 5), Number(raw, 9))
-----------------------------------------------------------------------------
(* The getters of a document.  Only a KEYVALUE package has one.            *)
Has(c, key) ==
  /\ key \in DOMAIN c.m_jsonroot
  /\ c.m_paramType = CMD_ARGUMENT_TYPE_KEYVALUE

(* getStringValue keeps its result in a static, which it also returns,     *)
(* unchanged, when the key is missing.                                     *)
GetStringValue(c, key, static) ==
  IF Has(c, key) THEN c.m_jsonroot[key] ELSE static

(* The caller's value stays zero when the key is missing.                  *)
GetIntValue(c, key) == IF Has(c, key) THEN c.m_jsonroot[key] ELSE 0
=============================================================================
