--------------------------- MODULE MCProviderSync ---------------------------
(* The surroundings for the instances TLC checks: in each, the owner changes *)
(* some of the fields, so that the parts do not multiply.                    *)
EXTENDS ProviderSync

Plain == [storage |-> NoStorage, proxy |-> FALSE, tls |-> "off", metrics |-> "off"]

Calm == [offer |-> {Plain}, missing |-> {}, lag |-> FALSE, finalizers |-> FALSE,
         busy |-> FALSE, converter |-> "off", legacy |-> FALSE, announces |-> FALSE]

With(m) == [Plain EXCEPT !.metrics = m]
On(st) == [Plain EXCEPT !.storage = st]
Proxied == [Plain EXCEPT !.proxy = TRUE]

\* The proxy comes and goes, and TLS is enforced with it.
ProxyOffer == {[Plain EXCEPT !.tls = "optional"], [Proxied EXCEPT !.tls = "required"]}

TemplateOffer == {On(st) : st \in Storage \cup {NoStorage}}

\* One storage is missing, and the steps after the template with it.
BlockedOffer == {Plain, [On(CHOOSE st \in Storage : TRUE) EXCEPT !.proxy = TRUE]}

MCScenario ==
    {[Calm EXCEPT !.offer = ProxyOffer, !.lag = a, !.announces = a] : a \in BOOLEAN}
    \cup {[Calm EXCEPT !.offer = {Plain, Proxied}, !.finalizers = TRUE, !.lag = a,
                       !.announces = a] : a \in BOOLEAN}
    \cup {[Calm EXCEPT !.offer = TemplateOffer, !.legacy = g] : g \in BOOLEAN}
    \cup {[Calm EXCEPT !.offer = TemplateOffer, !.lag = TRUE, !.finalizers = f,
                       !.legacy = f] : f \in BOOLEAN}
    \cup {[Calm EXCEPT !.offer = {With("prometheus"), With("victoria")},
                       !.converter = c, !.busy = b, !.lag = ~b] :
              c \in {"plain", "owning"}, b \in BOOLEAN}
    \cup {[Calm EXCEPT !.offer = {With(m), With("both")}, !.converter = "owning",
                       !.legacy = TRUE] : m \in {"off", "exporter"}}
    \cup {[Calm EXCEPT !.offer = BlockedOffer, !.missing = Storage]}
=============================================================================
