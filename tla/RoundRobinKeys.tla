--------------------------- MODULE RoundRobinKeys ---------------------------
(***************************************************************************)
(* The keys of FjallRoundRobinTaskQueue (backend/fjall_round_robin.rs): a  *)
(* queue key is the length of the tag in two bytes, the tag, and the task  *)
(* id; a pop scans the keys that begin with the length and the tag.        *)
(*                                                                         *)
(* FjallRoundRobin takes the queue of a tag to be the tasks of that tag;   *)
(* that KeysExact holds is why it may.  That a tag is valid UTF-8 is left  *)
(* out: the decoders check it of bytes that the encoders took from a       *)
(* string.                                                                 *)
(***************************************************************************)
EXTENDS Integers, Sequences, FiniteSets

CONSTANTS
    Radix,      \* the values of a byte (256)
    IdLength,   \* the bytes of a task id (16)
    KeyTags,    \* the tags
    KeyIds,     \* and the ids of the tasks that are pushed
    MaxKeys     \* how many are in the queue at a time

ASSUME KeyAssumption == Radix \in Nat \ {0} /\ IdLength \in Nat

Byte == 0 .. Radix - 1

\* The longest tag: u16::try_from panics on a longer one.
MaxLength == Radix * Radix - 1

Tag(tag) == tag \in Seq(Byte) /\ Len(tag) <= MaxLength
Id(id)   == id \in Seq(Byte) /\ Len(id) = IdLength

ASSUME KeysFit == (\A tag \in KeyTags : Tag(tag)) /\ (\A id \in KeyIds : Id(id))

-----------------------------------------------------------------------------
(* The encoders.                                                           *)

\* Mutant: the tag alone, without its length.
EncodePrefixBare(tag) == tag

\* encode_tag_prefix, which is encode_tag_blob too; the length is big-endian.
EncodePrefix(tag) == <<(Len(tag) \div Radix) % Radix, Len(tag) % Radix>> \o tag

EncodeKey(tag, id) == EncodePrefix(tag) \o id

\* What a prefix scan of the queue keyspace finds.
HasPrefix(key, prefix) ==
    Len(prefix) <= Len(key) /\ SubSeq(key, 1, Len(prefix)) = prefix

-----------------------------------------------------------------------------
(* The decoders.  An encoder never returns NoBytes, which is an error.     *)

NoBytes == <<-1>>

Declared(bytes) == bytes[1] * Radix + bytes[2]

DecodeTag(key) ==
    IF Len(key) < 2 THEN NoBytes
    ELSE IF Len(key) < 2 + Declared(key) + IdLength THEN NoBytes
    ELSE SubSeq(key, 3, 2 + Declared(key))

DecodeBlob(bytes) ==
    IF Len(bytes) < 2 THEN NoBytes
    ELSE IF Len(bytes) # 2 + Declared(bytes) THEN NoBytes
    ELSE SubSeq(bytes, 3, Len(bytes))

ExtractId(key) ==
    IF Len(key) < 2 + IdLength THEN NoBytes
    ELSE SubSeq(key, Len(key) - IdLength + 1, Len(key))

-----------------------------------------------------------------------------

(* The queue keyspace.                                                     *)

VARIABLE keyspace   \* the tags and ids of the keys in it

KeysInit == keyspace = {}

\* The key that a push inserts ...
InsertKey ==
    /\ Cardinality(keyspace) < MaxKeys
    /\ \E tag \in KeyTags, id \in KeyIds : keyspace' = keyspace \cup {<<tag, id>>}

\* ... and a pop removes.
RemoveKey == \E key \in keyspace : keyspace' = keyspace \ {key}

KeysNext == InsertKey \/ RemoveKey

KeysSpec == KeysInit /\ [][KeysNext]_keyspace

-----------------------------------------------------------------------------

\* The scan of one tag finds none of the keys of another, not even of one that it
\* begins, and what was encoded is decoded.
KeysExact(tags, ids) ==
    \A a \in tags, id \in ids :
        /\ \A b \in tags : HasPrefix(EncodeKey(a, id), EncodePrefix(b)) <=> a = b
        /\ DecodeTag(EncodeKey(a, id)) = a
        /\ ExtractId(EncodeKey(a, id)) = id
        /\ DecodeBlob(EncodePrefix(a)) = a

\* So it is for the keys that are ever in the keyspace together: a pop takes its task
\* from the tag whose turn it is.
TagsApart == KeysExact({key[1] : key \in keyspace}, {key[2] : key \in keyspace})

=============================================================================
