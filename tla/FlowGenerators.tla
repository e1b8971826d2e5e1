---------------------------- MODULE FlowGenerators ----------------------------
(* The generators of a configuration and of a profile for the FlowTest sequence *)
(* (comp/uvm/packet_generators/flowtest/tools): config_generator.py and         *)
(* profile_generator.py. A draw of `random` is any value of its range. Only the *)
(* section that is being generated is kept; shares count the parts of 100 %.    *)
EXTENDS Integers, Sequences, SequencesExt

CONSTANTS Defaults,   \* the parameters as the classes define them
          Overrides,  \* files given with -c: [a subset of the parameters -> values]
          Arguments,  \* addresses given with --ipv4, --ipv6 or --mac
          Share,      \* total_layers_probability of the constructor (99)
          None

VARIABLES param,    \* the parameters of the object
          at,       \* what is being generated
          types,    \* layer_posible_typed
          layers,   \* layers of the element; how many are still to come
          elements, \* encapsulation: [layers, probability]; elements still to come
          total,    \* total_layers_probability
          ranges,   \* addresses of an IPv4, IPv6 or MAC range
          actual,   \* actual_packet_size_max_probability
          sizes,    \* packet_size_probabilities: [lower, upper]
          record,   \* a record of the profile
          failed    \* randint has raised on an empty range
vars == <<param, at, types, layers, elements, total, ranges, actual, sizes, record, failed>>

\* extend_list_attribute: the addresses of the file, then those of the arguments.
extend_list_attribute(file, args) == file \o args

\* __apply_config: every parameter that the file names; the names are folded.
apply_config(file) == [p \in DOMAIN Defaults |-> IF p \in DOMAIN file THEN file[p] ELSE Defaults[p]]

\* The constructor takes the smallest packet size before it applies the file.
Init ==
    /\ \E file \in Overrides, args \in Arguments :
         LET given == apply_config(file)
         IN  param = [given EXCEPT !.mandatory = extend_list_attribute(@, args)]
    /\ at = "encapsulation"
    /\ types = <<>> /\ layers = [list |-> <<>>, left |-> 0]
    /\ \E n \in 1 .. param.elements : elements = [list |-> <<>>, left |-> n]
    /\ total = Share
    /\ ranges = None
    /\ actual = Defaults.packet_min
    /\ sizes = <<>> /\ record = None /\ failed = FALSE

(* ---------------------------------------------------------------- encapsulation -- *)
\* __generate_encapsulation_element, __generate_layers: how many layers.
StartElement ==
    /\ at = "encapsulation" /\ elements.left > 0
    /\ at' = "layers"
    /\ types' = <<"vlan", "mpls">>
    /\ \E n \in 1 .. param.layers : layers' = [list |-> <<>>, left |-> n]
    /\ UNCHANGED <<param, elements, total, ranges, actual, sizes, record, failed>>

\* __generate_layer: after MPLS a VLAN is possible no more.
generate_layer ==
    /\ at = "layers" /\ layers.left > 0
    /\ \E type \in ToSet(types) :
         /\ layers' = [list |-> Append(layers.list, type), left |-> layers.left - 1]
         /\ types' = IF type = "mpls" THEN SelectSeq(types, LAMBDA t : t # "vlan") ELSE types
    /\ UNCHANGED <<param, at, elements, total, ranges, actual, sizes, record, failed>>

\* The share of the element; an element without a share is dropped.
EndElement ==
    /\ at = "layers" /\ layers.left = 0
    /\ \E probability \in 0 .. total :
         /\ elements' = [list |-> IF probability = 0 THEN elements.list
                                  ELSE Append(elements.list, [layers |-> layers.list, probability |-> probability]),
                         left |-> elements.left - 1]
         /\ total' = total - probability
    /\ layers' = [list |-> <<>>, left |-> 0] /\ types' = <<>>
    /\ at' = "encapsulation"
    /\ UNCHANGED <<param, ranges, actual, sizes, record, failed>>

(* --------------------------------------------------------- addresses and sizes -- *)
\* __generate_ipv4, _ipv6, _mac: a copy of the mandatory addresses, then drawn ones.
GenerateRange ==
    /\ at = "encapsulation" /\ elements.left = 0
    /\ \E n \in 0 .. param.addresses : ranges' = param.mandatory \o [k \in 1 .. n |-> "drawn"]
    /\ elements' = [list |-> <<>>, left |-> 0] /\ total' = Share
    /\ at' = "sizes"
    /\ UNCHANGED <<param, types, layers, actual, sizes, record, failed>>

\* __generate_packet_size_bounds, while there is room for a range.
generate_packet_size_bounds ==
    /\ at = "sizes"
    /\ ranges' = None
    /\ IF param.packet_max - actual > param.step_min
       THEN LET lower == actual + 1
                room == param.packet_max - lower
                most == lower + (IF param.step_max < room THEN param.step_max ELSE room)
            IN  IF lower + param.step_min > most
                THEN failed' = TRUE /\ at' = "end" /\ UNCHANGED <<actual, sizes>>
                ELSE \E upper \in lower + param.step_min .. most :
                        /\ sizes' = Append(sizes, [lower |-> lower, upper |-> upper])
                        /\ actual' = upper
                        /\ UNCHANGED <<at, failed>>
       ELSE at' = "profile" /\ UNCHANGED <<actual, sizes, failed>>
    /\ UNCHANGED <<param, types, layers, elements, total, record>>

(* ----------------------------------------------------------------------- profile -- *)
\* __generate_record: both counts of a direction are zero when one is; a flow of
\* one packet ends when it starts.
generate_record ==
    /\ at = "profile"
    /\ sizes' = <<>>
    /\ \E start \in param.start_min .. param.start_max :
         LET first == IF param.end_min > start THEN param.end_min ELSE start IN
         IF first > param.end_max
         THEN failed' = TRUE /\ at' = "end" /\ UNCHANGED record
         ELSE /\ \E end \in first .. param.end_max, n \in param.packets_min .. param.packets_max,
                    rev \in param.rev_min .. param.rev_max, bytes \in {0, 1} :
                    LET back == IF bytes = 0 THEN 0 ELSE rev IN
                    record' = [start |-> start, end |-> IF n + back = 1 THEN start ELSE end,
                               packets |-> n, packets_rev |-> back,
                               bytes_rev |-> IF rev = 0 THEN 0 ELSE bytes]
              /\ at' = "end" /\ UNCHANGED failed
    /\ UNCHANGED <<param, types, layers, elements, total, ranges, actual>>

Next ==
    \/ StartElement \/ generate_layer \/ EndElement
    \/ GenerateRange \/ generate_packet_size_bounds
    \/ generate_record

Spec == Init /\ [][Next]_vars

(* ----------------------------------------------------------------- properties -- *)
TypeOK ==
    /\ at \in {"encapsulation", "layers", "sizes", "profile", "end"}
    /\ total \in 0 .. Share
    /\ layers.left \in 0 .. param.layers /\ elements.left \in 0 .. param.elements

Shares(list) == FoldLeft(LAMBDA sum, e : sum + e.probability, 0, list)

\* The elements of an encapsulation share no more than there is and none has an
\* empty share or a VLAN below MPLS; an address that was asked for is in the range;
\* the packet sizes are covered without a gap or an overlap up to the last step;
\* a flow does not end before it starts, one packet takes no time, and a direction
\* has bytes only with packets; nothing raises with ranges that are not empty.
FlowsAsConfigured ==
    /\ Shares(elements.list) + total = Share
    /\ \A k \in DOMAIN elements.list :
          LET e == elements.list[k] IN
          /\ e.probability > 0 /\ Len(e.layers) \in 1 .. param.layers
          /\ \A i \in 2 .. Len(e.layers) : e.layers[i] = "vlan" => e.layers[i - 1] = "vlan"
    /\ ranges # None => IsPrefix(param.mandatory, ranges)
    /\ \A k \in DOMAIN sizes :
          /\ sizes[k].lower = (IF k = 1 THEN Defaults.packet_min ELSE sizes[k - 1].upper) + 1
          /\ sizes[k].upper - sizes[k].lower \in param.step_min .. param.step_max
          /\ sizes[k].upper <= param.packet_max
    /\ at = "profile" => param.packet_max - actual <= param.step_min
    /\ record # None =>
          /\ record.start <= record.end
          /\ record.packets + record.packets_rev = 1 => record.start = record.end
          /\ record.bytes_rev > 0 <=> record.packets_rev > 0
    /\ failed => \/ param.step_max < param.step_min
                 \/ param.start_max > param.end_max
=============================================================================
