---------------------------- MODULE DeviceSpecs ----------------------------
(***************************************************************************)
(* What a device tells about itself, on its way from the DEVICE_ON message *)
(* to the list of devices that clients get: parsed, kept in memory or as a *)
(* document, and written again.  A JSON object is a function from the      *)
(* names of its members, an array a sequence; a boost::optional without a  *)
(* value is a member that is not there.                                    *)
(***************************************************************************)
EXTENDS Naturals, Sequences

\* The members of an item: those that are always read, and those that are
\* looked for with HasMember.
Input == [required |-> {"binding", "sourceChannel", "timeslice"},
          optional |-> {"origin", "description", "subSpec"}]

Output == [required |-> {"binding", "channel", "timeslice", "maxTimeslices", "origin",
                         "description"},
           optional |-> {"subSpec"}]

Forward == [required |-> {"binding", "channel", "timeslice", "maxTimeslices"},
            optional |-> {"origin", "description", "subSpec"}]

Members(json, item) ==
    [m \in item.required \cup (item.optional \cap DOMAIN json) |-> json[m]]

InputFromJson(json) == Members(json, Input)

OutputFromJson(json) == Members(json, Output)

ForwardFromJson(json) == Members(json, Forward)

\* An array of such items: nothing required is missing, and nothing is unknown.
IsArrayOf(item, items) ==
    /\ items \in Seq({items[i] : i \in DOMAIN items})
    /\ \A i \in DOMAIN items :
        /\ item.required \subseteq DOMAIN items[i]
        /\ DOMAIN items[i] \subseteq item.required \cup item.optional

Numbers == {"rank", "nSlots", "inputTimesliceId", "maxInputTimeslices"}

EachOf(Op(_), items) == [i \in DOMAIN items |-> Op(items[i])]

Specs(numbers, inputs, outputs, forwards) ==
    [numbers |-> numbers, inputs |-> inputs, outputs |-> outputs, forwards |-> forwards]

SpecsFromJson(json) ==
    Specs([n \in Numbers |-> json[n]], EachOf(InputFromJson, json.inputs),
          EachOf(OutputFromJson, json.outputs), EachOf(ForwardFromJson, json.forwards))

\* The device of a DEVICE_ON message, as the list keeps it.
ToDomain(json) ==
    [runId |-> json.runId, name |-> json.name, isSelected |-> FALSE,
     specs |-> SpecsFromJson(json.specs)]

\* std::to_string: a text of digits, which lexical_cast reads back.
Digits(n) == [digits |-> n]

LexicalCast(text) == text.digits

\* addDevice: the document in "devices" has the numbers, and no channels.
ToDocument(device) ==
    [runId |-> device.runId, name |-> device.name,
     numbers |-> [n \in Numbers |-> Digits(device.specs.numbers[n])]]

\* getDevices, from the documents.
FromDocument(doc) ==
    [runId |-> doc.runId, name |-> doc.name, isSelected |-> FALSE,
     specs |-> Specs([n \in Numbers |-> LexicalCast(doc.numbers[n])], <<>>, <<>>, <<>>)]

\* The channel of an output or a forward is shown as its source channel.
ShowChannel(item) ==
    [m \in (DOMAIN item \ {"channel"}) \cup {"sourceChannel"} |->
        IF m = "sourceChannel" THEN item["channel"] ELSE item[m]]

\* toJson<Device>: all but the run.
ToJson(device) ==
    [name |-> device.name, isSelected |-> device.isSelected,
     specs |-> [device.specs EXCEPT !.outputs = EachOf(ShowChannel, @),
                                    !.forwards = EachOf(ShowChannel, @)]]

=============================================================================
