----------------------------- MODULE AuditEvent -----------------------------
(***************************************************************************)
(* From a finished request to the payload that is queued: the source       *)
(* address, the principal, the destination and the size of the record.     *)
(*                                                                         *)
(* A text is what its size depends on: the number of its runes, their      *)
(* bytes, and the bytes JSON takes for one (\u003c for <, \ufffd for a     *)
(* byte that is not UTF-8).  All runes of a text are alike.  Sizes are the *)
(* program's, in bytes.                                                    *)
(***************************************************************************)
EXTENDS Integers, Sequences
LOCAL INSTANCE SequencesExt

CONSTANTS
    FixedSize,      \* bytes of the keys, numbers and constant texts of a record,
                    \* with its source address and its host's name
    AddressSize     \* bytes of one address in the forwarded chain

MaxAuditEventSize == 65536
MaxAuditPathSize == 1024
MaxAuditDynamicStringSize == 256
MarkerSize == 11        \* "[truncated]"

\* An event is bounded, if the rest of the record leaves room for the worst texts.
ASSUME FixedSizeAssumption == FixedSize \in 0 .. 4096
ASSUME AddressSizeAssumption == AddressSize \in Nat

-----------------------------------------------------------------------------
(* Texts.                                                                  *)

Text == [runes : Nat, width : 1 .. 4, escaped : 1 .. 6, valid : BOOLEAN, marked : BOOLEAN]
Plain(n) == [runes |-> n, width |-> 1, escaped |-> 1, valid |-> TRUE, marked |-> FALSE]

Marker(t) == IF t.marked THEN MarkerSize ELSE 0
Bytes(t) == t.runes * t.width + Marker(t)
Escaped(t) == t.runes * t.escaped + Marker(t)

\* A run of bytes that are not UTF-8 becomes one U+FFFD of three bytes.
ToValidUTF8(t) ==
    IF t.valid \/ t.runes = 0 THEN t
    ELSE [runes |-> 1, width |-> 3, escaped |-> 3, valid |-> TRUE, marked |-> FALSE]

\* Mutant: the marker does not count.
WholeLimit(limit) == limit

ContentLimit(limit) == IF limit < MarkerSize THEN 0 ELSE limit - MarkerSize

TruncateUTF8(text, limit) ==
    LET t == ToValidUTF8(text)
    IN  IF Bytes(t) <= limit THEN t
        ELSE [t EXCEPT !.runes = ContentLimit(limit) \div t.width, !.marked = TRUE]

-----------------------------------------------------------------------------
(* Addresses.                                                              *)

Unknown == [ip |-> "unknown", port |-> 0]

\* An address as netip.ParseAddr sees it.
Usable(candidate) == candidate.valid /\ ~candidate.zone

\* Every candidate of every value in turn; what is not usable is left out.
Take(addresses, candidate) ==
    IF Usable(candidate) THEN Append(addresses, candidate.ip) ELSE addresses

ValidatedForwardedFor(values) ==
    LET candidates == FlattenSeq(values)
        addresses[n \in 0 .. Len(candidates)] ==
            IF n = 0 THEN <<>> ELSE Take(addresses[n - 1], candidates[n])
    IN  addresses[Len(candidates)]

ValidPort(port) == IF port \in 1 .. 65535 THEN port ELSE 0

\* The zone of an interface is cut off.
EndpointFromAddress(peer) ==
    IF peer.host.valid THEN [ip |-> peer.host.ip, port |-> ValidPort(peer.port)] ELSE Unknown

\* Mutant: the router's view is at the other end.
ClientsOwnClaim(chain) == Head(chain)

Rightmost(chain) == Last(chain)

ForwardedChain(r, useForwardedFor) ==
    IF useForwardedFor THEN ValidatedForwardedFor(r.forwardedFor) ELSE <<>>

SourceEndpoint(r, useForwardedFor) ==
    LET chain == ForwardedChain(r, useForwardedFor)
    IN  IF chain # <<>> THEN [ip |-> Rightmost(chain), port |-> 0]
        ELSE EndpointFromAddress(r.peer)

DestinationPort(upstream) ==
    IF ValidPort(upstream.port) # 0 THEN upstream.port
    ELSE CASE upstream.scheme = "http" -> 80 [] upstream.scheme = "https" -> 443 [] OTHER -> 0

-----------------------------------------------------------------------------
(* Events.                                                                 *)

\* The texts that come with a request, those of the options, and two derived ones.
RequestFields == {"user", "uid", "method", "version", "path", "resource", "namespace"}
OptionFields == {"productVersion", "destination", "type", "provider"}
Fields == RequestFields \cup OptionFields \cup {"operation", "model"}

OCSFUser(r) ==
    IF r.principal = "none" THEN [name |-> Plain(7), uid |-> Plain(0), type |-> 0, groups |-> 0]
    ELSE [name |-> r.text["user"], uid |-> r.text["uid"],
          type |-> IF r.principal = "serviceaccount" THEN 4 ELSE 1, groups |-> r.groups]

\* The method, a blank and the path.  Runes of one kind: the path's.
Operation(method, path) == [path EXCEPT !.runes = @ + method.runes + 1]

\* The target and the model are named only with a resource name.
EventText(r, options) ==
    LET named == r.text["resource"].runes > 0
        user == OCSFUser(r)
        given(f) == IF f \in OptionFields THEN options.text[f] ELSE r.text[f]
    IN  [f \in Fields |->
            CASE f = "user" -> user.name
              [] f = "uid" -> user.uid
              [] f = "operation" -> Operation(r.text["method"], r.text["path"])
              [] f = "model" -> IF named /\ options.text["provider"].runes > 0
                                THEN r.text["resource"] ELSE Plain(0)
              [] f \in {"namespace", "type", "provider"} ->
                    IF named THEN given(f) ELSE Plain(0)
              [] OTHER -> given(f)]

Event(r, options) ==
    [text |-> EventText(r, options),
     userType |-> OCSFUser(r).type,
     groups |-> OCSFUser(r).groups,
     code |-> r.code,
     status |-> IF r.code >= 400 THEN "Failure" ELSE "Success",
     source |-> SourceEndpoint(r, options.useForwardedFor),
     destinationPort |-> DestinationPort(options.upstream),
     chain |-> ForwardedChain(r, options.useForwardedFor),
     truncated |-> FALSE,
     untruncatedSize |-> 0]

\* The length of the payload.
Size(e) ==
    LET bytes(f) == Escaped(e.text[f])
    IN  FixedSize + e.groups + AddressSize * Len(e.chain)
          + bytes("user") + bytes("uid") + bytes("method") + bytes("version")
          + bytes("path") + bytes("resource") + bytes("namespace") + bytes("productVersion")
          + bytes("destination") + bytes("type") + bytes("provider") + bytes("operation")
          + bytes("model")

Limit(f) == IF f = "path" THEN MaxAuditPathSize ELSE MaxAuditDynamicStringSize

\* Mutant: the groups of the principal are kept.
WithGroups(e, size) ==
    [e EXCEPT !.text = [f \in Fields |-> TruncateUTF8(e.text[f], Limit(f))],
              !.chain = <<>>,
              !.truncated = TRUE,
              !.untruncatedSize = (size + 1023) \div 1024]

BoundedAuditEvent(e, size) ==
    [e EXCEPT !.text = [f \in Fields |-> TruncateUTF8(e.text[f], Limit(f))],
              !.groups = 0,
              !.chain = <<>>,
              !.truncated = TRUE,
              !.untruncatedSize = (size + 1023) \div 1024]

Discarded == [discarded |-> TRUE]

\* The part of enqueue before the queue.
Payload(e) ==
    IF Size(e) <= MaxAuditEventSize THEN e
    ELSE LET bounded == BoundedAuditEvent(e, Size(e))
         IN  IF Size(bounded) <= MaxAuditEventSize THEN bounded ELSE Discarded
=============================================================================
