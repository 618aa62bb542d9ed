---------------------------- MODULE ReportParser ----------------------------
(***************************************************************************)
(* main/usb/descriptor_parser.c: parse_report_descriptor reads the items   *)
(* of a descriptor one after the other; at its end, the last field with    *)
(* the usage of an axis is the one read for the axis.                      *)
(*                                                                         *)
(* Beside it the model keeps what the descriptor means: where the HID      *)
(* specification puts each control of each report.  Usages stand for the   *)
(* usage with its page.  Report size and count are taken with the item     *)
(* that uses them; logical ranges are left out.                            *)
(***************************************************************************)
EXTENDS Naturals, Sequences, SequencesExt

CONSTANTS Usages,      \* usages of single controls
          NoUsage,     \* current_usage before the first one
          Padding,     \* the usage of a constant field
          Ranged,      \* that of a range which does not begin with one of Usages
          ReportIds,   \* report ids, other than 0
          Sizes, Counts,
          MaxFields,   \* MAX_REPORT_FIELDS
          MaxReports,  \* MAX_REPORTS_PER_INTERFACE
          MaxItems     \* bound on the length of a descriptor

ASSUME ParserAssumption ==
  /\ NoUsage \notin Usages /\ Padding \notin Usages /\ Ranged \notin Usages
  /\ Ranged # NoUsage
  /\ ReportIds \subseteq Nat \ {0}
  /\ Sizes \subseteq Nat \ {0} /\ Counts \subseteq Nat \ {0}
  /\ MaxFields \in Nat \ {0} /\ MaxReports \in Nat \ {0} /\ MaxItems \in Nat

VARIABLES
  items,          \* items read
  ids,            \* report_ids
  reports,        \* reports
  currentReport,  \* the index of current_report
  currentId,      \* current_report_id
  lastUsage,      \* current_usage
  usageMinimum,   \* usage_minimum; NoUsage as long as has_usage_range is false
  means,          \* the meaning: bits and controls of each report
  local,          \* usages since the last main item
  titled,         \* a collection or feature has used some up since the last input
  axes,           \* a range since the last main item has one of Usages
  inputId,        \* the report of the last input
  odd             \* history: the descriptor has one of the forms listed at Odd

meaning == << means, local, titled, axes, inputId, odd >>
parserVars == << items, ids, reports, currentReport, currentId, lastUsage,
                 usageMinimum, meaning >>

hasRange == usageMinimum # NoUsage

Fresh == [fields |-> << >>, bits |-> 0, stack |-> << >>]
AnyUsage == Usages \union {NoUsage, Padding, Ranged}
InputKinds == {"constant", "array", "variable"}

\* Every variable has its type.
ParserTypeOK ==
  /\ items \in 0..MaxItems
  /\ Len(ids) = Len(reports) /\ Len(ids) <= MaxReports
  /\ \A k \in DOMAIN reports :
       /\ ids[k] \in ReportIds \union {0}
       /\ reports[k].bits \in Nat /\ reports[k].stack \in Seq(Usages)
       /\ \A j \in DOMAIN reports[k].fields :
            reports[k].fields[j] \in [usage : AnyUsage, offset : Nat, bits : Nat]
  /\ currentReport \in DOMAIN reports /\ currentId \in ReportIds \union {0}
  /\ lastUsage \in Usages \union {NoUsage}
  /\ usageMinimum \in Usages \union {NoUsage, Ranged}
  /\ means \in [ReportIds \union {0} ->
                [bits : Nat, controls : SUBSET (Usages \X Nat \X Nat)]]
  /\ local \in Seq(Usages) /\ titled \in BOOLEAN /\ axes \in BOOLEAN /\ odd \in BOOLEAN
  /\ inputId \in ReportIds \union {0}

ParserInit ==
  /\ items = 0 /\ ids = << 0 >> /\ reports = << Fresh >>
  /\ currentReport = 1 /\ currentId = 0 /\ lastUsage = NoUsage /\ usageMinimum = NoUsage
  /\ means = [r \in ReportIds \union {0} |-> [bits |-> 0, controls |-> {}]]
  /\ local = << >> /\ titled = FALSE /\ axes = FALSE /\ inputId = 0 /\ odd = FALSE

-----------------------------------------------------------------------------
(* Global and local items, collections and features.  They have two bytes   *)
(* of data at most, or four of which the last is zero: the parser takes     *)
(* that one for an item, which has no effect.                               *)

\* What follows an odd form is left out.
ItemRead == items < MaxItems /\ ~odd /\ items' = items + 1

\* case 0 of the local items.
TakeUsage(u) ==
  /\ reports' = IF Len(reports[currentReport].stack) < MaxFields
                THEN [reports EXCEPT ![currentReport].stack = Append(@, u)] ELSE reports
  /\ lastUsage' = u
  /\ UNCHANGED << ids, currentReport, currentId, usageMinimum >>

TakeNothing ==
  UNCHANGED << ids, reports, currentReport, currentId, lastUsage, usageMinimum >>

UsageItem(u) ==
  /\ ItemRead /\ TakeUsage(u)
  /\ local' = Append(local, u)
  /\ UNCHANGED << means, titled, axes, inputId, odd >>

\* Usage Minimum and Maximum; those of a range with axes may begin with another usage.
RangeItem(minimum, withAxes) ==
  /\ ItemRead
  /\ usageMinimum' = minimum /\ axes' = (axes \/ withAxes)
  /\ UNCHANGED << ids, reports, currentReport, currentId, lastUsage, means, local, titled,
                  inputId, odd >>

ReportIdItem(r) ==
  /\ ItemRead
  /\ currentId' = r
  /\ UNCHANGED << ids, reports, currentReport, lastUsage, usageMinimum, meaning >>

\* A collection uses up its usages, but the parser keeps them on the stack.  (It has
\* no range of them.)
CollectionItem ==
  /\ ItemRead /\ ~hasRange /\ TakeNothing
  /\ titled' = (titled \/ local # << >>) /\ local' = << >>
  /\ UNCHANGED << means, axes, inputId, odd >>

\* So does a feature, whose range is kept for the next field.
FeatureItem ==
  /\ ItemRead /\ TakeNothing
  /\ titled' = (titled \/ local # << >>) /\ local' = << >> /\ axes' = FALSE
  /\ odd' = hasRange
  /\ UNCHANGED << means, inputId >>

\* The parser has no case for Pop, which brings back the state of a Push.
PopItem ==
  /\ ItemRead /\ TakeNothing
  /\ odd' = TRUE
  /\ UNCHANGED << means, local, titled, axes, inputId >>

\* Four bytes, the last one not zero: a usage with its page, or a logical bound.  The
\* parser takes three, and the last for another item; that one is left out.
LongItem ==
  /\ ItemRead
  /\ TakeNothing \/ \E u \in Usages : TakeUsage(u)
  /\ odd' = TRUE
  /\ UNCHANGED << means, local, titled, axes, inputId >>

-----------------------------------------------------------------------------
(* Input and Output.                                                       *)

\* The report the id asks for: a known one, or a new one at the end.
Target ==
  IF currentId = 0 THEN currentReport
  ELSE IF \E k \in DOMAIN ids : ids[k] = currentId
       THEN CHOOSE k \in DOMAIN ids : ids[k] = currentId
       ELSE Len(ids) + 1

NewReport == Target = Len(ids) + 1

\* The table of the report before is tested, not of the one asked for.
Accepted ==
  /\ Len(reports[currentReport].fields) < MaxFields
  /\ NewReport => Len(reports) < MaxReports

Field(u, offset, bits) == [usage |-> u, offset |-> offset, bits |-> bits]

\* Mutant of NewFields: all fields of one item begin where it begins.
NewFieldsTogether(rep, kind, size, count) ==
  IF kind = "variable" /\ ~hasRange /\ Len(rep.stack) >= count
  THEN [j \in 1..(IF count < MaxFields - Len(rep.fields) THEN count
                  ELSE MaxFields - Len(rep.fields)) |->
          Field(rep.stack[j], rep.bits, size)]
  ELSE << Field(IF kind = "constant" THEN Padding
                ELSE IF hasRange THEN usageMinimum ELSE lastUsage, rep.bits,
                size * count) >>

\* One field for the whole item, or one for each count when there are usages enough.
NewFields(rep, kind, size, count) ==
  IF kind = "variable" /\ ~hasRange /\ Len(rep.stack) >= count
  THEN [j \in 1..(IF count < MaxFields - Len(rep.fields) THEN count
                  ELSE MaxFields - Len(rep.fields)) |->
          Field(rep.stack[j], rep.bits + (j - 1) * size, size)]
  ELSE << Field(CASE kind = "constant" -> Padding
                  [] kind # "constant" /\ hasRange -> usageMinimum
                  [] kind # "constant" /\ ~hasRange /\ rep.stack = << >> -> lastUsage
                  [] OTHER -> IF kind = "array" THEN Head(rep.stack)
                              ELSE Last(rep.stack),
                rep.bits, size * count) >>

\* The fields of one item are equally wide.
BitsOf(fields) == IF fields = << >> THEN 0 ELSE Len(fields) * Head(fields).bits

\* An accepted item: the fields are added, and the usages of that report used up.
TakeItem(kind, size, count) ==
  LET rep == IF NewReport THEN Fresh ELSE reports[Target]
      new == NewFields(rep, kind, size, count)
      after == [fields |-> rep.fields \o new, bits |-> rep.bits + BitsOf(new),
                stack |-> << >>]
  IN /\ Accepted
     /\ currentReport' = Target
     /\ ids' = IF NewReport THEN Append(ids, currentId) ELSE ids
     /\ reports' = IF NewReport THEN Append(reports, after)
                   ELSE [reports EXCEPT ![Target] = after]
     /\ usageMinimum' = NoUsage

\* No place: the item is skipped, its usages stay.
SkipItem ==
  /\ ~Accepted
  /\ UNCHANGED << ids, reports, currentReport, usageMinimum >>

\* Forms that the parser does not read as they are meant: too few usages, or an array
\* without a range; usages after those of a collection or feature; usages before the
\* first item of another report; a range with axes, or one after usages; more fields or
\* reports than there are places for.  (Of the other items: a feature with a range, Pop,
\* long data and Output.)
Odd(kind, size, count) ==
  \/ kind = "variable" /\ ~hasRange /\ Len(local) < count
  \/ kind = "array" /\ ~hasRange
  \/ kind = "variable" /\ ~hasRange /\ (titled \/ currentId # inputId)
  \/ kind # "constant" /\ hasRange /\ (axes \/ local # << >>)
  \/ ~Accepted
  \/ ~NewReport /\ Len(reports[Target].fields)
                   + (IF kind = "variable" /\ ~hasRange THEN count ELSE 1) > MaxFields

\* The meaning: as many usages as the count asks for, one after the other.  (Those of a
\* range are left out: with one of Usages it is odd.)
InputItem(kind, size, count) ==
  /\ ItemRead
  /\ TakeItem(kind, size, count) \/ SkipItem
  /\ means' = [means EXCEPT ![currentId] =
       [bits |-> @.bits + size * count,
        controls |-> @.controls \union
          (IF kind # "variable" THEN {}
           ELSE {<< local[j], @.bits + (j - 1) * size, size >> :
                   j \in {i \in DOMAIN local : i <= count}})]]
  /\ local' = << >> /\ titled' = FALSE /\ axes' = FALSE /\ inputId' = currentId
  /\ odd' = Odd(kind, size, count)
  /\ UNCHANGED << currentId, lastUsage >>

\* An output item is taken for an input.
OutputItem(kind, size, count) ==
  /\ ItemRead
  /\ TakeItem(kind, size, count) \/ SkipItem
  /\ local' = << >> /\ odd' = TRUE
  /\ UNCHANGED << currentId, lastUsage, means, titled, axes, inputId >>

ParserNext ==
  \/ \E u \in Usages : UsageItem(u)
  \/ \E u \in Usages : RangeItem(u, TRUE)
  \/ \E withAxes \in BOOLEAN : RangeItem(Ranged, withAxes)
  \/ CollectionItem \/ FeatureItem \/ PopItem \/ LongItem
  \/ \E r \in ReportIds : ReportIdItem(r)
  \/ \E kind \in InputKinds, size \in Sizes, count \in Counts :
       InputItem(kind, size, count) \/ OutputItem(kind, size, count)

ParserSpec == ParserInit /\ [][ParserNext]_parserVars

-----------------------------------------------------------------------------
\* The classification at the end: mouse_fields of one report.
AxisField(rep, u) ==
  LET matching == {j \in DOMAIN rep.fields : rep.fields[j].usage = u}
  IN IF matching = {} THEN 0 ELSE CHOOSE j \in matching : \A i \in matching : i <= j

\* In a descriptor without odd forms, each axis is read from a place where its report
\* has it, with the width that it has there, whatever reports, paddings and ranges come
\* before, and the reports of different ids are laid out apart, however their items are
\* mixed.
AxesWhereDeclared ==
  ~odd => \A k \in DOMAIN reports, u \in Usages :
    LET declared == {c \in means[ids[k]].controls : c[1] = u}
        fields == reports[k].fields
        j == AxisField(reports[k], u)
    IN IF declared = {} THEN j = 0
       ELSE j # 0 /\ << u, fields[j].offset, fields[j].bits >> \in declared
=============================================================================
