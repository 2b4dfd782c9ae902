----------------------------- MODULE Datastore -----------------------------
(***************************************************************************)
(* How a record of the sign nodes becomes an entity of the Datastore and a  *)
(* record again: the trip EncryptedUserCredentials -> Value -> Entity, which *)
(* GcpService writes, and Entity -> Value -> EncryptedUserCredentials.       *)
(*                                                                          *)
(* A text is a record that says how it was encoded and what it encodes, so   *)
(* that a text decoded in another way than it was encoded is malformed.     *)
(***************************************************************************)
EXTENDS Naturals

CONSTANTS Absent,         \* Option::None
          ConvertError    \* the Err of a conversion

Json(x) == [text |-> "json", of |-> x]
Hex(x) == [text |-> "hex", of |-> x]

\* serde_json::from_str and hex::decode.
Decode(encoding, s) == IF s.text = encoding THEN s.of ELSE ConvertError

\* The members of Value that the program's records use.
IntegerValue(x) == [type |-> "integer", val |-> x]
StringValue(x) == [type |-> "string", val |-> x]

\* The Datastore's own Value is a record of options, of which one is set.
FromValue(v) ==
    [integer_value |-> IF v.type = "integer" THEN v.val ELSE Absent,
     string_value  |-> IF v.type = "string" THEN v.val ELSE Absent]

IntoValue(d) ==
    IF d.integer_value # Absent THEN IntegerValue(d.integer_value)
                                ELSE StringValue(d.string_value)

\* i64::from_value and String::from_value.
As(type, v) == IF v.type = type THEN v.val ELSE ConvertError

EntityFromValue(v) ==
    [key |-> v.key, properties |-> [p \in DOMAIN v.properties |-> FromValue(v.properties[p])]]

EntityIntoValue(e) ==
    [key |-> e.key, properties |-> [p \in DOMAIN e.properties |-> IntoValue(e.properties[p])]]

-----------------------------------------------------------------------------
(* EncryptedUserCredentials.                                                *)

\* The name of the record: node_id/internal_account_id.
CredentialsName(c) == <<c.node_id, c.internal_account_id>>

CredentialsIntoValue(c) ==
    [key |-> CredentialsName(c),
     properties |-> [node_id             |-> IntegerValue(c.node_id),
                     internal_account_id |-> StringValue(c.internal_account_id),
                     public_key          |-> StringValue(Json(c.public_key)),
                     encrypted_key_pair  |-> StringValue(Json(Hex(c.encrypted_key_pair)))]]

\* Mutant: hex::decode is left out.
CredentialsFromValueHex(v) ==
    LET p == v.properties
    IN [node_id             |-> As("integer", p.node_id),
        internal_account_id |-> As("string", p.internal_account_id),
        public_key          |-> Decode("json", As("string", p.public_key)),
        encrypted_key_pair  |-> Decode("json", As("string", p.encrypted_key_pair))]

CredentialsFromValue(v) ==
    LET p == v.properties
    IN [node_id             |-> As("integer", p.node_id),
        internal_account_id |-> As("string", p.internal_account_id),
        public_key          |-> Decode("json", As("string", p.public_key)),
        encrypted_key_pair  |-> Decode("hex", Decode("json", As("string", p.encrypted_key_pair)))]

\* What GcpService writes for a record, and what it reads back.
ToEntity(c) == EntityFromValue(CredentialsIntoValue(c))
OfEntity(e) == CredentialsFromValue(EntityIntoValue(e))

-----------------------------------------------------------------------------
(* Key pairs and ciphers.  Encryption uses a constant nonce, so what is      *)
(* sealed depends on nothing but the cipher and the key pair.               *)

PublicKey(key_pair) == [public_key_of |-> key_pair]

Encrypt(cipher, x) == [cipher |-> cipher, plain |-> x]

\* EncryptedUserCredentials::new
Credentials(node_id, account, cipher, key_pair) ==
    [node_id |-> node_id, internal_account_id |-> account,
     public_key |-> PublicKey(key_pair), encrypted_key_pair |-> Encrypt(cipher, Json(key_pair))]

\* decrypt_key_pair unwraps: with any other cipher than its own it panics.
Decrypts(c, cipher) == c.encrypted_key_pair.cipher = cipher
DecryptKeyPair(c) == Decode("json", c.encrypted_key_pair.plain)
=============================================================================
