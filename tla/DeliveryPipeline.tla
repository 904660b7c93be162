-------------------------- MODULE DeliveryPipeline --------------------------
(***************************************************************************)
(* A delivery message on its way from a method to the SMTP transport.      *)
(* Seven places check it on their own: the core, the outbox dispatcher     *)
(* (snapshot, then seal), the outbox store (testkit and PostgreSQL), the   *)
(* worker, its unsealing, and the transport.  They count with the same     *)
(* limits but over different parts, so what one accepts another may refuse.*)
(*                                                                         *)
(* A message is [to, data, metadata].  Its address is [channel, list];     *)
(* list: the target holds a comma or a semicolon.  Data and metadata are   *)
(* sequences of groups [count, item]: count entries alike.  An item has    *)
(* the length of its key and                                               *)
(*   secret TRUE:   raw and cipher, the lengths of the two texts           *)
(*   secret FALSE:  depth (containers nested), nodes, chars (all text),    *)
(*                  longest (one text), and marked: an object in it has a  *)
(*                  property named reveal that is no function              *)
(* Every place but the transport takes any address.  How long the texts of *)
(* an address, the template, the locale and the key may be is the same     *)
(* everywhere and is left out.                                             *)
(***************************************************************************)
EXTENDS Naturals, Sequences, Loops

MaxKey == 512
MaxText == 65536
MaxNodes == 1000
MaxDepth == 16
MaxEntries == 1000
MaxCharacters == 1000000
MaxSealed == 5000000

IsItem(i) ==
  /\ i.key \in Nat /\ i.secret \in BOOLEAN
  /\ i.secret => i.raw \in Nat /\ i.cipher \in Nat
  /\ ~i.secret => {i.depth, i.nodes, i.chars, i.longest} \subseteq Nat /\ i.marked \in BOOLEAN

IsGroups(groups) ==
  /\ Len(groups) \in Nat /\ DOMAIN groups = 1..Len(groups)
  /\ \A k \in DOMAIN groups : groups[k].count \in Nat /\ IsItem(groups[k].item)

\* Metadata has no secrets.
IsMessage(m) ==
  /\ m.to.channel \in STRING /\ m.to.list \in BOOLEAN
  /\ IsGroups(m.data) /\ IsGroups(m.metadata)
  /\ \A k \in DOMAIN m.metadata : ~m.metadata[k].item.secret

\* The sum of f over all entries.
Total(groups, f(_)) ==
  Folded([p \in Nat \X Nat |-> p[1] + p[2]], 0,
         [k \in DOMAIN groups |-> groups[k].count * f(groups[k].item)])

Each(groups, holds(_)) == \A k \in DOMAIN groups : holds(groups[k].item)

\* The same for the JSON values, and for the secrets.
JsonTotal(groups, f(_)) == Total(groups, LAMBDA i : IF i.secret THEN 0 ELSE f(i))
EachJson(groups, holds(_)) == Each(groups, LAMBDA i : ~i.secret => holds(i))
SecretTotal(groups, f(_)) == Total(groups, LAMBDA i : IF i.secret THEN f(i) ELSE 0)
EachSecret(groups, holds(_)) == Each(groups, LAMBDA i : i.secret => holds(i))

Entries(groups) == Total(groups, LAMBDA i : 1)
KeyOk(i) == i.key \in 1..MaxKey

\* isJsonValue begun at some depth, but for what is counted over several values.
Nests(i, depth) == depth + i.depth <= MaxDepth /\ i.longest <= MaxText

\* One isJsonValue with counters of its own.
Alone(i) == Nests(i, 0) /\ i.nodes <= MaxNodes /\ i.chars <= MaxCharacters

\* The values with the same counters; keys says whether their keys count.
Shared(groups, keys) ==
  /\ EachJson(groups, LAMBDA i : Nests(i, 0))
  /\ JsonTotal(groups, LAMBDA i : i.nodes) <= MaxNodes
  /\ JsonTotal(groups, LAMBDA i : i.chars + IF keys THEN i.key ELSE 0) <= MaxCharacters

-----------------------------------------------------------------------------
(* The core                                                                *)

\* An object of public data: its entries begin at depth 0.
isPublicData(groups) == Each(groups, KeyOk) /\ Shared(groups, TRUE)

\* Every entry is checked as an object { value: entry }.
isDeliveryData(groups) ==
  /\ Entries(groups) <= MaxEntries
  /\ Each(groups, KeyOk)
  /\ EachJson(groups, LAMBDA i : Nests(i, 0) /\ i.nodes <= MaxNodes
                                   /\ i.chars + Len("value") <= MaxCharacters)

CoreAccepts(m) == isDeliveryData(m.data) /\ isPublicData(m.metadata)

-----------------------------------------------------------------------------
(* The outbox dispatcher                                                   *)

\* Each JSON value alone; the secrets together.
snapshotDeliveryData(groups) ==
  /\ Entries(groups) <= MaxEntries
  /\ EachJson(groups, Alone)
  /\ EachSecret(groups, LAMBDA i : i.raw > 0)
  /\ SecretTotal(groups, LAMBDA i : i.raw) <= MaxCharacters

snapshotDeliveryEffect(m) == snapshotDeliveryData(m.data) /\ isPublicData(m.metadata)

\* The sealed message, ready for the store.
snapshotPersistableDeliveryMessage(m) ==
  /\ Entries(m.data) <= MaxEntries
  /\ EachJson(m.data, Alone)
  /\ SecretTotal(m.data, LAMBDA i : i.cipher) <= MaxCharacters
  /\ isPublicData(m.metadata)

sealDeliveryMessage(m) ==
  /\ EachSecret(m.data, LAMBDA i : i.cipher \in 1..MaxSealed)
  /\ snapshotPersistableDeliveryMessage(m)

DispatcherAccepts(m) == snapshotDeliveryEffect(m) /\ sealDeliveryMessage(m)

-----------------------------------------------------------------------------
(* The outbox stores                                                       *)

\* Every value has counters of its own.
SlipIsPersistableDeliveryData(groups) ==
  /\ Entries(groups) <= MaxEntries
  /\ Each(groups, KeyOk)
  /\ EachJson(groups, LAMBDA i : Alone(i) /\ ~i.marked)
  /\ EachSecret(groups, LAMBDA i : i.cipher \in 1..MaxCharacters)

\* Keys, ciphertexts and JSON on one count of characters.
isPersistableDeliveryData(groups) ==
  /\ Entries(groups) <= MaxEntries
  /\ Each(groups, KeyOk)
  /\ EachJson(groups, LAMBDA i : Nests(i, 0) /\ ~i.marked)
  /\ EachSecret(groups, LAMBDA i : i.cipher \in 1..MaxCharacters)
  /\ JsonTotal(groups, LAMBDA i : i.nodes) <= MaxNodes
  /\ Total(groups, LAMBDA i : i.key + IF i.secret THEN i.cipher ELSE i.chars) <= MaxCharacters

\* The object itself is a node, and its entries are one level down.
isJsonObject(groups) ==
  /\ Each(groups, LAMBDA i : KeyOk(i) /\ Nests(i, 1) /\ ~i.marked)
  /\ 1 + Total(groups, LAMBDA i : i.nodes) <= MaxNodes
  /\ Total(groups, LAMBDA i : i.key + i.chars) <= MaxCharacters

isPersistableDeliveryMessage(m) ==
  isPersistableDeliveryData(m.data) /\ (m.metadata # <<>> => isJsonObject(m.metadata))

\* The PostgreSQL store has a copy of the same checks.
isPersistableOutboxMessage(m) ==
  /\ Entries(m.data) <= MaxEntries
  /\ Each(m.data, KeyOk)
  /\ EachJson(m.data, LAMBDA i : Nests(i, 0) /\ ~i.marked)
  /\ EachSecret(m.data, LAMBDA i : i.cipher \in 1..MaxCharacters)
  /\ JsonTotal(m.data, LAMBDA i : i.nodes) <= MaxNodes
  /\ Total(m.data, LAMBDA i : i.key + IF i.secret THEN i.cipher ELSE i.chars) <= MaxCharacters
  /\ m.metadata # <<>> => isJsonObject(m.metadata)

-----------------------------------------------------------------------------
(* The worker and the transports                                           *)

\* Read from the store: each value alone, then all of them together.
snapshotPersistedDeliveryMessage(m) ==
  /\ Entries(m.data) <= MaxEntries
  /\ EachJson(m.data, Alone)
  /\ Shared(m.data, FALSE)
  /\ EachSecret(m.data, LAMBDA i : i.cipher > 0)
  /\ SecretTotal(m.data, LAMBDA i : i.cipher) <= MaxCharacters
  /\ isPublicData(m.metadata)

unsealDeliveryData(m) ==
  /\ EachSecret(m.data, LAMBDA i : i.raw > 0)
  /\ SecretTotal(m.data, LAMBDA i : i.raw) <= MaxCharacters

\* Keys and JSON on one count; secrets are not counted.
TransportData(groups) ==
  /\ Each(groups, KeyOk)
  /\ EachJson(groups, LAMBDA i : Nests(i, 0))
  /\ JsonTotal(groups, LAMBDA i : i.nodes) <= MaxNodes
  /\ Total(groups, LAMBDA i : i.key + IF i.secret THEN 0 ELSE i.chars) <= MaxCharacters

isSafeAddress(to) == ~to.list

\* The transport sends mail, and to one mailbox.
isDeliveryMessage(m) ==
  /\ m.to.channel = "email"
  /\ isSafeAddress(m.to)
  /\ TransportData(m.data)
  /\ isPublicData(m.metadata)

\* The synchronous dispatcher counts as the transport does, with a budget for
\* secrets, and takes any address.
isDeliveryEffect(m) ==
  unsealDeliveryData(m) /\ TransportData(m.data) /\ isPublicData(m.metadata)

-----------------------------------------------------------------------------
(* Who stores a message, and who delivers it                               *)

Persistable(m) == CoreAccepts(m) /\ DispatcherAccepts(m) /\ isPersistableDeliveryMessage(m)

WorkerAccepts(m) == snapshotPersistedDeliveryMessage(m) /\ unsealDeliveryData(m)

Deliverable(m) == WorkerAccepts(m) /\ isDeliveryMessage(m)

ToOneMailbox(to) == to.channel = "email" /\ ~to.list

\* No later check but that of its address stops m: the worker takes it, and the
\* transport's check refuses it exactly when it is not for one mailbox.
StoppedByAddressOnly(m) == WorkerAccepts(m) /\ (Deliverable(m) <=> ToOneMailbox(m.to))

=============================================================================
