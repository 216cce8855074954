------------------------------- MODULE Convert -------------------------------
(***************************************************************************)
(* Conversion between the formats of an image (logic/projects/convert): the *)
(* selected files are copied from the input folder of the project over those *)
(* of the output folder and worked on there, through the raw image of their  *)
(* base name.  The files are those of one base name; a "bare" image is any   *)
(* other than <base>.img that has the base, such as one without extension.   *)
(***************************************************************************)
EXTENDS Naturals, Sequences

CONSTANTS MaxContents,    \* bound on the contents the user brings
          MaxConversions  \* bound on the conversions that are begun

ASSUME ConvertConstants == MaxContents \in Nat /\ MaxConversions \in Nat

VARIABLES sources,     \* the files in input: [form, of] of each name
          results,     \* the files in output
          job,         \* the conversion that runs
          verdict,     \* the last one that came to its end, or NoJob
          brought, conversions

convertVars == <<sources, results, job, verdict, brought, conversions>>

DatFamily == {"dat", "br", "xz"}
Inputs == {"raw", "sparse"} \cup DatFamily
Outputs == Inputs \ {"xz"}

File(form, content) == [form |-> form, of |-> content]
Wrong == 0
Partial(form) == File(form, Wrong)
Absent == File("none", Wrong)
Names == {"img", "bare", "list"} \cup DatFamily
Has(name) == results[name] # Absent
Placed(name, file) == [results EXCEPT ![name] = file]

NoJob == [at |-> "idle"]
Item == Head(job.left)
At(stage) == job.at = stage

ConvertInit ==
  /\ sources = [n \in Names |-> Absent] /\ results = sources
  /\ job = NoJob /\ verdict = NoJob
  /\ brought = 0 /\ conversions = 0

\* The user puts a file into input, a data file with its transfer list or without.
Bring(name, form, withList) ==
  /\ job = NoJob /\ brought < MaxContents
  /\ brought' = brought + 1
  /\ sources' = [sources EXCEPT ![name] = File(form, brought + 1),
                                !["list"] = IF withList THEN File("list", brought + 1) ELSE @]
  /\ verdict' = NoJob
  /\ UNCHANGED <<results, job, conversions>>

\* The window's list is as old as the window: a chosen file may be gone, or of
\* another form.  While held, another program keeps <base>.img from being opened.
Selected(from) == <<IF from \in DatFamily THEN from ELSE "img">>
Selections(from) ==
  {Selected(from)} \cup
  IF from \in DatFamily THEN {} ELSE {<<"bare">>, <<"img", "bare">>, <<"bare", "img">>}

Begin(from, to, held) ==
  /\ job = NoJob /\ conversions < MaxConversions
  /\ \E chosen \in Selections(from) :
       job' = [at |-> "prepare", from |-> from, to |-> to, chosen |-> chosen,
               left |-> chosen, ok |-> TRUE, held |-> held, began |-> {n \in Names : Has(n)}]
  /\ conversions' = conversions + 1
  /\ verdict' = NoJob
  /\ UNCHANGED <<sources, results, brought>>

To(stage) == job' = [job EXCEPT !.at = stage] /\ UNCHANGED verdict

\* The file is done; the next one, or all succeeded and the window closes.
EndItem(ok) ==
  IF Len(job.left) > 1
  THEN /\ job' = [job EXCEPT !.left = Tail(@), !.ok = @ /\ ok, !.at = "prepare"]
       /\ UNCHANGED verdict
  ELSE /\ job' = NoJob
       /\ verdict' = [job EXCEPT !.ok = @ /\ ok]

\* With the raw image of the base name at hand, if there is one.
Onward == IF job.to = "raw" THEN EndItem(results'["img"] # Absent) ELSE To("shrink")

CopiedAlone == Placed(Item, sources[Item])

Copied == IF job.from \in DatFamily /\ sources["list"] # Absent
          THEN [CopiedAlone EXCEPT !["list"] = sources["list"]]
          ELSE CopiedAlone

Blocked == job.held /\ Item = "img" /\ Has("img")

Prepare ==
  /\ At("prepare")
  /\ IF sources[Item] = Absent
     THEN EndItem(FALSE) /\ UNCHANGED results
     ELSE /\ ~Blocked
          /\ results' = Copied
          /\ IF job.from = job.to THEN EndItem(TRUE)
             ELSE CASE job.from \in {"br", "xz"} -> To("decompress")
                    [] job.from = "dat"    -> To("rebuild")
                    [] job.from = "sparse" -> To("expand")
                    [] job.from = "raw"    -> To("shrink")

\* brotli overwrites, Unxz takes a file that is there for its own.
Decompress ==
  /\ At("decompress")
  /\ results' = IF Item = "xz" /\ Has("dat") THEN results
                ELSE Placed("dat", File("dat", results[Item].of))
  /\ To("rebuild")

DecompressFails ==
  /\ At("decompress")
  /\ IF Item = "xz"
     THEN ~Has("dat") /\ UNCHANGED results
     ELSE results' \in {results, Placed("dat", Absent), Placed("dat", Partial("dat"))}
  /\ EndItem(FALSE)

\* Sdat2img: the data at the places its list gives, or an image that cannot be
\* opened as it is.
Joined == IF job.held /\ Has("img") THEN results["img"]
          ELSE File("raw", IF results["dat"].of = results["list"].of
                           THEN results["dat"].of ELSE Wrong)

Rebuilt == [Placed("img", Joined) EXCEPT !["dat"] = Absent]

DatToRaw ==
  /\ At("rebuild")
  /\ IF Has("dat") /\ Has("list")
     THEN results' = [Rebuilt EXCEPT !["list"] = Absent] /\ Onward
     ELSE EndItem(FALSE) /\ UNCHANGED results

\* simg2img, in place; an image that is not sparse is no raw image to it, but
\* the dat formats go on with whatever <base>.img is.
SparseToRaw ==
  /\ At("expand")
  /\ IF results[Item].form = "sparse"
     THEN results' = Placed(Item, [results[Item] EXCEPT !.form = "raw"]) /\ Onward
     ELSE /\ UNCHANGED results
          /\ IF job.to = "raw" THEN EndItem(FALSE) ELSE To("shrink")

\* img2simg, in place; it raises without an image.
Shrunk == File("sparse", IF results["img"].form = "raw" THEN results["img"].of ELSE Wrong)

RawToSparse ==
  /\ At("shrink")
  /\ IF Has("img")
     THEN /\ results' = Placed("img", Shrunk)
          /\ IF job.to = "sparse" THEN EndItem(TRUE) ELSE To("sdat")
     ELSE job.to = "sparse" /\ EndItem(FALSE) /\ UNCHANGED results

WithSdat == [results EXCEPT !["dat"] = File("dat", results["img"].of),
                              !["list"] = File("list", results["img"].of)]

RawToDat ==
  /\ At("sdat")
  /\ results' = [WithSdat EXCEPT !["img"] = Absent]
  /\ IF job.to = "dat" THEN EndItem(TRUE) ELSE To("compress")

\* brotli does not overwrite here.
Compressed == Placed("br", File("br", results["dat"].of))

Compress ==
  /\ At("compress") /\ ~Has("br")
  /\ results' = [Compressed EXCEPT !["dat"] = Absent]
  /\ EndItem(TRUE)

CompressFails ==
  /\ At("compress")
  /\ IF Has("br") THEN UNCHANGED results
     ELSE results' \in {results, Placed("br", Partial("br"))}
  /\ EndItem(FALSE)

\* A call raises, which ends the conversion, or the process dies.
Halves ==
  {results} \cup
  CASE At("prepare") -> IF sources[Item] # Absent /\ ~Blocked
                        THEN {Placed(Item, Partial(sources[Item].form)), CopiedAlone}
                        ELSE {}
    [] At("decompress") -> IF Item = "br" THEN {Placed("dat", Partial("dat"))} ELSE {}
    [] At("rebuild") -> IF Has("dat") /\ Has("list")
                        THEN {Placed("img", Joined), Rebuilt}
                             \cup (IF job.held THEN {} ELSE {Placed("img", Partial("raw"))})
                        ELSE {}
    [] At("sdat") -> {Placed("dat", Partial("dat")), WithSdat}
    [] At("compress") -> IF Has("br") THEN {}
                         ELSE {Placed("br", Partial("br")), Compressed}
    [] OTHER -> {}

Stop ==
  /\ job # NoJob
  /\ results' \in Halves /\ job' = NoJob /\ verdict' = NoJob

ConvertStep ==
  \/ Prepare \/ Decompress \/ DecompressFails \/ DatToRaw \/ SparseToRaw \/ RawToSparse
  \/ RawToDat \/ Compress \/ CompressFails \/ Stop

ConvertNext ==
  \/ \E form \in {"raw", "sparse"}, name \in {"img", "bare"} : Bring(name, form, FALSE)
  \/ \E name \in DatFamily, withList \in BOOLEAN : Bring(name, name, withList)
  \/ \E from \in Inputs, to \in Outputs, held \in BOOLEAN : Begin(from, to, held)
  \/ ConvertStep /\ UNCHANGED <<sources, brought, conversions>>
-----------------------------------------------------------------------------
Holds(to, content) ==
  IF to \in DatFamily THEN results[to] = File(to, content) /\ results["list"] = File("list", content)
  ELSE results["img"] = File(to, content)

OwnList(item) == sources["list"] = File("list", sources[item].of)

Expected(from, item) == sources[item].form = from /\ (from \in DatFamily => OwnList(item))

\* A conversion that reports success has made the chosen file, in the format
\* asked for and with its list, whatever earlier conversions left in output
\* (convert_selection).  Apart are images that are not <base>.img or not of the
\* form listed, data without its own list, an xz over a dat that was there
\* and an image that was there and cannot be opened.
ConvertedIsSource ==
  LET v == verdict IN
    /\ v # NoJob /\ v.ok /\ v.chosen = Selected(v.from)
    /\ ~(v.from = "xz" /\ "dat" \in v.began) /\ ~(v.held /\ "img" \in v.began)
    /\ Expected(v.from, v.chosen[1])
    => Holds(v.to, sources[v.chosen[1]].of)
=============================================================================
