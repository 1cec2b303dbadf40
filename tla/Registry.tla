------------------------------ MODULE Registry ------------------------------
(***************************************************************************)
(* The device registry as the REST API sees it (internal/api/devices.go,   *)
(* internal/deviceconfig, the device table of internal/store and the       *)
(* credential fields of internal/collector): what is validated, sealed,    *)
(* redacted and merged before a row is stored.                             *)
(*                                                                         *)
(* A collector configuration is a function from the fields it has to their *)
(* values.  A value is its text and how often it was sealed.  Fields that  *)
(* play the same part (host, user and command; password and private key)   *)
(* are one field.                                                          *)
(***************************************************************************)
EXTENDS Naturals, FiniteSets

CONSTANTS Ids,      \* device ids
          Secrets,  \* credentials clients type
          NoRow     \* no row for an id

Types == {"file", "ssh", "eero"}
Fields == {"path", "host", "password", "session_token"}

VARIABLE devices  \* per id, its row or NoRow

Typed(text) == [text |-> text, seals |-> 0]

\* What stands for a credential in a response.
Redacted == Typed("***")

\* What is not a credential.
Site == Typed("site")

SensitiveFields(type) ==
    CASE type = "ssh" -> {"password"} [] type = "eero" -> {"session_token"} [] OTHER -> {}

\* Fields redacted whatever the type, and those of the type.
RedactedKeys(type) == {"password"} \cup SensitiveFields(type)

Required(type) ==
    CASE type = "file" -> {"path"} [] type = "ssh" -> {"host", "password"} [] OTHER -> {"session_token"}

\* A poll interval is never negative here, an id always a slug.
Valid(type, config) == Required(type) \subseteq DOMAIN config

IsEncrypted(v) == v.seals > 0

\* (mutation) A sealed value is sealed again.
EncryptConfigTwice(type, config) ==
    [f \in DOMAIN config |->
        IF f \in SensitiveFields(type) THEN [config[f] EXCEPT !.seals = @ + 1] ELSE config[f]]

EncryptConfig(type, config) ==
    [f \in DOMAIN config |->
        IF f \in SensitiveFields(type) /\ ~IsEncrypted(config[f])
        THEN [config[f] EXCEPT !.seals = @ + 1] ELSE config[f]]

RedactConfig(type, config) ==
    [f \in DOMAIN config |-> IF f \in RedactedKeys(type) THEN Redacted ELSE config[f]]

\* A field sent as redacted keeps its stored value, or goes if there is none.
MergeRedactedSecrets(type, new, old) ==
    LET kept == {f \in RedactedKeys(type) \cap DOMAIN new : new[f] = Redacted}
    IN  [f \in DOMAIN new \ (kept \ DOMAIN old) |-> IF f \in kept THEN old[f] ELSE new[f]]

\* SuggestedVendor: without one the collector decides how texts are parsed.
SuggestedVendor(type) ==
    CASE type = "ssh" -> "preset" [] type = "eero" -> "eero" [] OTHER -> "auto"

Vendors == {"auto", "preset", "eero"}

\* The rows the table may hold.
Values == [text : Secrets \cup {"***", "site"}, seals : {0, 1}]
Configs == UNION {[present -> Values] : present \in SUBSET Fields}
Rows == [vendor : Vendors, type : Types, config : Configs]

ASSUME RegistryAssumption == NoRow \notin Rows

NewRow(type, config) ==
    [vendor |-> SuggestedVendor(type), type |-> type, config |-> EncryptConfig(type, config)]

\* The fields of body, an absent one being {}, over those of row.
PatchedType(row, body) == IF body.type = {} THEN row.type ELSE CHOOSE t \in body.type : TRUE

Patched(row, body) ==
    LET type == PatchedType(row, body)
        config == IF body.config = {} THEN row.config
                  ELSE MergeRedactedSecrets(type, CHOOSE c \in body.config : TRUE, row.config)
    IN  [vendor |-> IF body.vendor = {} THEN row.vendor ELSE CHOOSE v \in body.vendor : TRUE,
         type |-> type, config |-> config]

Sealed(row) == [row EXCEPT !.config = EncryptConfig(row.type, @)]

-----------------------------------------------------------------------------
\* The statements the handlers run
Exists(id) == devices[id] # NoRow

InsertRow(id, row) == devices' = [devices EXCEPT ![id] = row]

DeleteRow(id) == devices' = [devices EXCEPT ![id] = NoRow]

\* UPDATE ... WHERE id = ?: all columns, whatever the row is by now.
UpdateRow(id, row) == devices' = [devices EXCEPT ![id] = row]

\* What a collector gets when it decrypts a stored value, once.
Opened(v) == IF v.seals <= 1 THEN v.text ELSE "ciphertext"

=============================================================================
