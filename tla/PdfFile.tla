------------------------------- MODULE PdfFile -------------------------------
(***************************************************************************)
(* The file a jsPDF document is written to: numbered objects that refer to *)
(* each other, and a cross-reference table with the position of each.  The *)
(* text of an object is one entry of `content`, so positions count entries *)
(* where the code counts characters; contentLength grows with each entry,  *)
(* as content_length does, and is never set back.                          *)
(***************************************************************************)
EXTENDS Naturals, Sequences, FiniteSets, SequencesExt

CONSTANTS
  FontCount,   \* fonts of addFonts
  MaxPages,    \* bound: pages of the document
  MaxDrawn,    \* bound: elements drawn, images included
  MaxOutputs   \* bound: calls of output

ASSUME FileAssumption ==
  {FontCount, MaxPages, MaxDrawn, MaxOutputs} \subseteq Nat \ {0}

VARIABLES
  docPages,      \* pages: the elements written to each, 0 or an image drawn
  images,        \* collections.addImage_images: img.n of each, or 0
  hooked,        \* the listeners of the addImage plugin are subscribed
  fonts,         \* fonts: objectNumber of each, or 0
  content, contentLength, objectNumber, offsets, outToPages,
  delivered,     \* the document last returned by output, <<>> before
  outputs,       \* calls of output, up to MaxOutputs
  asDrawn        \* history: what the program drew on each page

file == <<content, contentLength, objectNumber, offsets, fonts>>
fileVars == <<docPages, images, hooked, file, outToPages, delivered, outputs,
          asDrawn>>

(* An entry of the file.  `obj` is the number of an object, 0 for what is  *)
(* no object; `refs` pairs the number of each object it refers to with the *)
(* kind of object that has to be there.                                    *)
Entry(obj, kind, refs, data) ==
  [obj |-> obj, kind |-> kind, refs |-> refs, data |-> data]

FileTypeOK ==
  /\ docPages \in Seq(Seq(0 .. Len(images))) /\ Len(docPages) \in 1 .. MaxPages
  /\ images \in Seq(Nat) /\ hooked \in BOOLEAN
  /\ fonts \in [1 .. FontCount -> Nat]
  /\ objectNumber \in Nat \ {0, 1} /\ DOMAIN offsets \subseteq 1 .. objectNumber
  /\ Len(content) <= contentLength
  /\ outToPages \in BOOLEAN /\ outputs \in 0 .. MaxOutputs
  /\ Len(asDrawn) = Len(docPages)

FileInit ==
  /\ docPages = << <<>> >> /\ images = <<>> /\ hooked = FALSE
  /\ fonts = [f \in 1 .. FontCount |-> 0]
  /\ content = <<>> /\ contentLength = 0 /\ objectNumber = 2
  /\ offsets = <<>> /\ outToPages = TRUE
  /\ delivered = <<>> /\ outputs = 0
  /\ asDrawn = << <<>> >>

-----------------------------------------------------------------------------
(* Drawing.  out writes to the page while outToPages is set, and to        *)
(* content otherwise.                                                      *)
DrawnElements == FoldLeft(LAMBDA n, p : n + Len(p), 0, asDrawn)

Out(element) ==
  /\ asDrawn' = [asDrawn EXCEPT ![Len(asDrawn)] = Append(@, element)]
  /\ IF outToPages
     THEN /\ docPages' = [docPages EXCEPT ![Len(docPages)] = Append(@, element)]
          /\ UNCHANGED <<content, contentLength>>
     ELSE /\ content' = Append(content, Entry(0, "stray", {}, element))
          /\ contentLength' = contentLength + 1
          /\ UNCHANGED docPages

DrawElement ==
  /\ DrawnElements < MaxDrawn
  /\ Out(0)
  /\ UNCHANGED <<images, hooked, objectNumber, offsets, fonts, outToPages,
                 delivered, outputs>>

(* addImage: the first one subscribes the plugin, before it is known       *)
(* whether the image can be read.                                          *)
AddImage ==
  /\ DrawnElements < MaxDrawn
  /\ hooked' = TRUE
  /\ images' = Append(images, 0)
  /\ Out(Len(images) + 1)
  /\ UNCHANGED <<objectNumber, offsets, fonts, outToPages, delivered, outputs>>

AddUnreadableImage ==
  /\ ~hooked /\ hooked' = TRUE
  /\ UNCHANGED <<docPages, images, file, outToPages, delivered, outputs, asDrawn>>

AppendPage ==
  /\ Len(docPages) < MaxPages
  /\ docPages' = Append(docPages, <<>>) /\ asDrawn' = Append(asDrawn, <<>>)
  /\ outToPages' = TRUE
  /\ UNCHANGED <<images, hooked, file, delivered, outputs>>

-----------------------------------------------------------------------------
(* Building.  The state of a build: what buildDocument and the listeners   *)
(* it calls read and assign.                                               *)
Put(b, entry) ==
  [b EXCEPT !.content = Append(@, entry), !.length = @ + 1]

(* newObject notes where in the file the object begins.                    *)
OffsetsWith(b, n) ==
  [m \in DOMAIN b.offsets \cup {n} |-> IF m = n THEN b.length ELSE b.offsets[m]]

(* An object with a number of its own: newObject, its text, endobj.        *)
PutObject(b, kind, refs, data) ==
  LET n == b.number + 1
  IN  Put([b EXCEPT !.number = n, !.offsets = OffsetsWith(b, n)],
          Entry(n, kind, refs, data))

(* One of the two objects whose numbers are fixed.                         *)
PutFixed(b, n, kind, refs, data) ==
  Put([b EXCEPT !.offsets = OffsetsWith(b, n)], Entry(n, kind, refs, data))

(* A loop of n turns, each of which takes the build on.                    *)
Loop(Turn(_, _), b, n) ==
  LET after[i \in 0 .. n] == IF i = 0 THEN b ELSE Turn(after[i - 1], i)
  IN  after[n]

(* Mutant: each stream is that of the last page.                         *)
PutPageLast(b, n) ==
  LET dict == PutObject(b, "page",
                {<<"pages", 1>>, <<"resources", 2>>,
                 <<"stream", b.number + 2>>}, n)
  IN  PutObject(dict, "stream", {}, Last(docPages))

PutPage(b, n) ==
  LET dict == PutObject(b, "page",
                {<<"pages", 1>>, <<"resources", 2>>,
                 <<"stream", b.number + 2>>}, n)
  IN  PutObject(dict, "stream", {}, docPages[n])

(* Mutant: the kids are taken to be one object each.                     *)
PutPagesKids(b) ==
  LET all == Loop(PutPage, b, Len(docPages))
      kids == {<<"page", 3 + i>> : i \in 0 .. Len(docPages) - 1}
  IN  PutFixed(all, 1, "pages", kids, Len(docPages))

PutPages(b) ==
  LET all == Loop(PutPage, b, Len(docPages))
      kids == {<<"page", 3 + 2 * i>> : i \in 0 .. Len(docPages) - 1}
  IN  PutFixed(all, 1, "pages", kids, Len(docPages))

PutFont(b, f) ==
  LET put == PutObject(b, "font", {}, f)
  IN  [put EXCEPT !.fonts[f] = put.number]

(* putImage, called by the plugin's listener of putResources.              *)
PutImage(b, i) ==
  LET put == PutObject(b, "image", {}, i)
  IN  [put EXCEPT !.images[i] = put.number]

(* The resource dictionary: each font, and each image by the name under    *)
(* which pages draw it, which the listener of putXobjectDict writes.       *)
PutResources(b) ==
  LET withFonts == Loop(PutFont, b, FontCount)
      all == IF hooked
             THEN Loop(PutImage, withFonts, Len(images))
             ELSE withFonts
      named == IF hooked THEN all.images ELSE <<>>
  IN  PutFixed(all, 2, "resources",
        {<<"font", all.fonts[f]>> : f \in 1 .. FontCount}
          \cup {<<"image", named[i]>> : i \in DOMAIN named}, named)

PutInfo(b) == PutObject(b, "info", {}, 0)

PutCatalog(b) == PutObject(b, "catalog", {<<"pages", 1>>, <<"page", 3>>}, 0)

PutTrailer(b, start) ==
  Put(b, Entry(0, "trailer",
           {<<"catalog", b.number>>, <<"info", b.number - 1>>},
           [size |-> b.number + 1, startxref |-> start]))

(* buildDocument up to the table: content and offsets are new, the length  *)
(* and the object number go on from the last build.                        *)
Body ==
  LET empty == [content |-> <<>>, length |-> contentLength,
                number |-> objectNumber, offsets |-> <<>>,
                fonts |-> fonts, images |-> images]
      header == Put(empty, Entry(0, "header", {}, 0))
  IN  PutCatalog(PutInfo(PutResources(PutPages(header))))

(* Every number has an offset, so padd10 can format it.                    *)
TableComplete(b) == DOMAIN b.offsets = 1 .. b.number

BuildDocument(b) ==
  PutTrailer(Put(b, Entry(0, "xref", {}, b.offsets)), b.length)

Built(b) ==
  /\ content' = b.content /\ contentLength' = b.length
  /\ objectNumber' = b.number /\ offsets' = b.offsets
  /\ fonts' = b.fonts /\ images' = b.images
  /\ outputs' = outputs + 1 /\ UNCHANGED <<docPages, hooked, asDrawn>>

(* output, of any of its types: each builds the document.                  *)
Output ==
  /\ outputs < MaxOutputs
  /\ TableComplete(Body)
  /\ Built(BuildDocument(Body))
  /\ delivered' = content' /\ outToPages' = TRUE

(* offsets[i] is undefined: the loop over the table throws at the first    *)
(* such number, and what was written so far stays in content.              *)
OutputThrows ==
  /\ outputs < MaxOutputs
  /\ ~TableComplete(Body)
  /\ Built(Put(Body, Entry(0, "xref", {}, <<>>)))
  /\ outToPages' = FALSE /\ UNCHANGED delivered

FileNext ==
  \/ DrawElement \/ AddImage \/ AddUnreadableImage \/ AppendPage \/ Output \/ OutputThrows

FileSpec == FileInit /\ [][FileNext]_fileVars

-----------------------------------------------------------------------------
Doc == delivered
Found(kind) == {n \in DOMAIN Doc : Doc[n].kind = kind}
Only(kind) == Doc[CHOOSE n \in Found(kind) : TRUE]

(* The table of a delivered document has the position of every object, and *)
(* startxref that of the table, whatever pages, fonts and images it has.   *)
TableLocatesObjects ==
  Doc # <<>> =>
    /\ \A n \in 1 .. Only("trailer").data.size - 1 :
         Doc[Only("xref").data[n] + 1].obj = n
    /\ Doc[Only("trailer").data.startxref + 1].kind = "xref"

(* Whatever an object of a delivered document refers to is in it, once,    *)
(* and is of the kind meant: the kids computed as 3, 5, .. are the pages,  *)
(* the numbers fonts and images got when they were put are theirs.         *)
ReferencesResolve ==
  \A n \in DOMAIN Doc : \A r \in Doc[n].refs :
    Cardinality({m \in DOMAIN Doc : Doc[m].obj = r[2] /\ Doc[m].kind = r[1]}) = 1

(* Every image a page draws is named by the resources, and its name leads  *)
(* to that image, even if the first addImage failed.                       *)
DrawnImagesNamed ==
  Doc # <<>> =>
    \A s \in Found("stream") : \A j \in DOMAIN Doc[s].data :
      LET i == Doc[s].data[j]
          named == Only("resources").data
      IN  i # 0 => /\ i \in DOMAIN named
                   /\ \E m \in Found("image") :
                        Doc[m].obj = named[i] /\ Doc[m].data = i

(* What a reader needs of the file: its table finds every object, each     *)
(* reference meets one of the right kind, and each image drawn has a name. *)
FileReadable ==
  /\ FileTypeOK
  /\ TableLocatesObjects
  /\ ReferencesResolve
  /\ DrawnImagesNamed

(* A document is delivered with all its pages in order and everything that *)
(* was drawn on each until then.                                           *)
DeliversWhatWasDrawn ==
  [][delivered' # delivered =>
       LET pageOf(n) == CHOOSE m \in DOMAIN delivered' :
                          /\ delivered'[m].kind = "page"
                          /\ delivered'[m].data = n
       IN  \A n \in DOMAIN asDrawn :
             \E m \in DOMAIN delivered' :
               /\ <<"stream", delivered'[m].obj>> \in delivered'[pageOf(n)].refs
               /\ delivered'[m].data = asDrawn[n]]_fileVars
=============================================================================
