--------------------------- MODULE BindingIdentity ---------------------------
(***************************************************************************)
(* binding_id (store.py): the bytes a binding's identity is the SHA-256 of, *)
(* built field by field in one buffer. Three required fields end with NUL,  *)
(* three optional ones start with a presence byte, a role is appended only  *)
(* when there is one. The hash is taken to be injective, so the identity is *)
(* the buffer; BindingRules takes it to be the tuple of the fields, which   *)
(* is sound exactly when no two contexts share their bytes.                 *)
(***************************************************************************)
EXTENDS Integers, Sequences, FiniteSets

CONSTANTS
  Text,        \* Python strings
  WithNul,     \* the ones that hold U+0000
  Encodable,   \* the ones UTF-8 can encode (no lone surrogate)
  Utf8,        \* str.encode("utf-8"): encodable text -> bytes
  None,        \* Python None
  Context,     \* arguments of binding_id: digest, name and the binding's fields
  MaxIssued    \* bound: identities returned

VARIABLES
  ctx,      \* arguments of the call under way, None between calls
  field,    \* the next field to append
  encoded,  \* the bytearray
  issued    \* what calls returned: arguments and bytes

identityVars == <<ctx, field, encoded, issued>>

Required == <<"artifact_digest", "artifact_name", "scope_id">>
Optional == <<"subject_id", "run_id", "layer_id">>
Fields == Required \o Optional \o <<"role">>

Byte == 0..255
BINDING_DOMAIN == <<116, 114, 97, 117, 115, 116, 45, 98, 105, 110, 100, 105, 110, 103,
                    45, 118, 49, 0>>

Identifier == Encodable \ WithNul

Contexts ==
  [artifact_digest : Text, artifact_name : Text, scope_id : Text,
   subject_id : Text \cup {None}, run_id : Text \cup {None},
   layer_id : Text \cup {None}, role : Text \cup {None}]

(* What UTF-8 guarantees: different texts have different bytes, and only    *)
(* U+0000 is encoded with a zero byte.                                      *)
ASSUME TextAssumption ==
  /\ WithNul \subseteq Text /\ Encodable \subseteq Text
  /\ None \notin Text
  /\ Utf8 \in [Encodable -> Seq(Byte)]
  /\ \A s, t \in Encodable : Utf8[s] = Utf8[t] => s = t
  /\ \A s \in Identifier : \A i \in 1..Len(Utf8[s]) : Utf8[s][i] # 0

ASSUME ContextAssumption == Context \subseteq Contexts /\ None \notin Context

-----------------------------------------------------------------------------
(* _identifier_bytes: text with NUL or a lone surrogate raises.             *)
Refused(v) == v # None /\ v \notin Identifier

(* Mutant: no delimiter.                                                    *)
RequiredBytes_Bare(v) == Utf8[v]

RequiredBytes(v) == Utf8[v] \o <<0>>

OptionalBytes(v) == IF v = None THEN <<0>> ELSE <<1>> \o Utf8[v] \o <<0>>

(* Trailing and present-only.                                               *)
RoleBytes(v) == IF v = None THEN <<>> ELSE <<1>> \o Utf8[v] \o <<0>>

-----------------------------------------------------------------------------
IdentityInit == ctx = None /\ field = 1 /\ encoded = <<>> /\ issued = {}

Call(c) ==
  /\ ctx = None
  /\ Cardinality(issued) < MaxIssued
  /\ ctx' = c /\ field' = 1 /\ encoded' = BINDING_DOMAIN
  /\ UNCHANGED issued

Value == ctx[Fields[field]]

(* One iteration of a loop: the field's bytes go to the end of the buffer.  *)
Extend(bytes) ==
  /\ encoded' = encoded \o bytes
  /\ field' = field + 1
  /\ UNCHANGED <<ctx, issued>>

AppendRequired ==
  ctx # None /\ field \in 1..3 /\ ~Refused(Value) /\ Extend(RequiredBytes(Value))

AppendOptional ==
  ctx # None /\ field \in 4..6 /\ ~Refused(Value) /\ Extend(OptionalBytes(Value))

AppendRole ==
  ctx # None /\ field = 7 /\ ~Refused(Value) /\ Extend(RoleBytes(Value))

(* IngestError from _identifier_bytes: no identity.                         *)
Raise ==
  /\ ctx # None /\ field \in 1..7 /\ Refused(Value)
  /\ ctx' = None /\ field' = 1 /\ encoded' = <<>>
  /\ UNCHANGED issued

Return ==
  /\ ctx # None /\ field = 8
  /\ issued' = issued \cup {[context |-> ctx, bytes |-> encoded]}
  /\ ctx' = None /\ field' = 1 /\ encoded' = <<>>

IdentityNext ==
  \/ \E c \in Context : Call(c)
  \/ AppendRequired
  \/ AppendOptional
  \/ AppendRole
  \/ Raise
  \/ Return

IdentitySpec == IdentityInit /\ [][IdentityNext]_identityVars

-----------------------------------------------------------------------------
(* Two calls of binding_id return the same identity only for the same       *)
(* fields, and the same fields always get the same one: shifting text from  *)
(* one field to the next, leaving one out, or adding a role cannot collide. *)
NoCollision ==
  \A x, y \in issued : x.bytes = y.bytes <=> x.context = y.context

(* The bytes storage hashed before bindings had roles.                      *)
BeforeRoles(c) ==
  BINDING_DOMAIN
    \o RequiredBytes(c.artifact_digest) \o RequiredBytes(c.artifact_name)
    \o RequiredBytes(c.scope_id)
    \o OptionalBytes(c.subject_id) \o OptionalBytes(c.run_id) \o OptionalBytes(c.layer_id)

(* The comment in binding_id: a binding without a role hashes as it did     *)
(* before roles existed, and no binding with a role takes its place.        *)
NoIdMoves ==
  \A x, y \in issued :
    x.context.role = None => /\ x.bytes = BeforeRoles(x.context)
                             /\ y.context.role # None => y.bytes # x.bytes
=============================================================================
