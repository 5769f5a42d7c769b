-------------------------------- MODULE MCForms --------------------------------
(***************************************************************************)
(* The forms of the panel, each alone, as the panel shows them: a          *)
(* product's variants, its images and its digital content; the settings    *)
(* and the payment providers.                                              *)
(***************************************************************************)
EXTENDS Naturals

CONSTANTS
  n1, n2, v1, Untyped,                                    \* VariantEditor
  Products, Pictures, None, MaxFiles, ImageMoves,         \* ProductImages
  Items, Texts, Empty, ContentMoves,                      \* DigitalContent
  MaxChoice, SettingMoves, ProviderMoves,                 \* Settings, Providers
  MaxFlight

VARIABLES
  form,                                                             \* which form is open
  hasVariants, heap, options, editors, variants, table, refused,    \* VariantEditor
  owner, position, main, placed, product, productImages, dragged,   \* ProductImages
  type, content, sold, delivered, shown,                            \* DigitalContent
  page, files, fields, local, closing, typed, wanted, fresh,        \* Settings
  cleared,
  active, keys, store, phase, errors, wish,                         \* Providers
  stored, loading, drawer, drawerOpen, flight, heard, patient, strayed, moves

Variants == INSTANCE VariantEditor
  WITH Names <- <<n1, n2>>, Values <- {v1}, Blank <- Untyped, MaxOptions <- 3, MaxValues <- 2,
       MaxStock <- 1, MaxMoves <- 5
Images == INSTANCE ProductImages WITH Images <- Pictures, MaxMoves <- ImageMoves
Content == INSTANCE DigitalContent WITH MaxMoves <- ContentMoves
Settings == INSTANCE Settings WITH form <- fields, MaxMoves <- SettingMoves
Providers == INSTANCE Providers WITH form <- fields, MaxMoves <- ProviderMoves
ASSUME FormsAssumption ==
  /\ Images!ConstantsTyped /\ Content!ConstantsTyped
  /\ Settings!ConstantsTyped /\ Providers!ConstantsTyped
-----------------------------------------------------------------------------
(* What a form has and the others do not, and the variables two forms name *)
(* alike: only one of the two is open.                                     *)
VariantsOwn == <<hasVariants, heap, options, editors, variants, table, refused>>
ImagesOwn == <<owner, position, main, placed, product, productImages, dragged>>
ContentOwn == <<type, content, sold, delivered, shown>>
SettingsOwn == <<page, files, local, closing, typed, wanted, fresh, cleared>>
ProvidersOwn == <<active, keys, store, phase, errors, wish>>

NoVariants ==
  /\ hasVariants = 0 /\ heap = 0 /\ options = 0 /\ editors = 0 /\ variants = 0
  /\ table = 0 /\ refused = 0
NoImages ==
  /\ owner = 0 /\ position = 0 /\ main = 0 /\ placed = 0 /\ product = 0
  /\ productImages = 0 /\ dragged = 0
NoContent == type = 0 /\ content = 0 /\ sold = 0 /\ delivered = 0 /\ shown = 0
NoSettings ==
  /\ page = 0 /\ files = 0 /\ local = 0 /\ closing = 0 /\ typed = 0 /\ wanted = 0 /\ fresh = 0
  /\ cleared = 0
NoProviders == active = 0 /\ keys = 0 /\ store = 0 /\ phase = 0 /\ errors = 0 /\ wish = 0

Init ==
  \/ /\ form = "variants" /\ Variants!Init
     /\ NoImages /\ NoContent /\ NoSettings /\ NoProviders
     /\ fields = 0 /\ stored = 0 /\ loading = 0 /\ drawer = 0 /\ drawerOpen = 0
     /\ flight = 0 /\ heard = 0 /\ patient = 0 /\ strayed = 0
  \/ /\ form = "images" /\ Images!Init
     /\ NoVariants /\ NoContent /\ NoSettings /\ NoProviders
     /\ fields = 0 /\ stored = 0 /\ loading = 0 /\ drawer = 0 /\ heard = 0
  \/ /\ form = "content" /\ Content!Init
     /\ NoVariants /\ NoImages /\ NoSettings /\ NoProviders
     /\ fields = 0 /\ drawer = 0 /\ heard = 0
  \/ /\ form = "settings" /\ Settings!Init
     /\ NoVariants /\ NoImages /\ NoContent /\ NoProviders
     /\ drawerOpen = 0 /\ strayed = 0
  \/ /\ form = "providers" /\ Providers!Init
     /\ NoVariants /\ NoImages /\ NoContent /\ NoSettings
     /\ stored = 0 /\ loading = 0 /\ drawerOpen = 0 /\ strayed = 0

VariantsForm ==
  /\ form = "variants" /\ Variants!Next
  /\ UNCHANGED <<form, ImagesOwn, ContentOwn, SettingsOwn, ProvidersOwn, fields,
                 stored, loading, drawer, drawerOpen, flight, heard, patient, strayed>>
ImagesForm ==
  /\ form = "images" /\ Images!Next
  /\ UNCHANGED <<form, VariantsOwn, ContentOwn, SettingsOwn, ProvidersOwn,
                 fields, stored, loading, drawer, heard>>
ContentForm ==
  /\ form = "content" /\ Content!Next
  /\ UNCHANGED <<form, VariantsOwn, ImagesOwn, SettingsOwn, ProvidersOwn,
                 fields, drawer, heard>>
SettingsForm ==
  /\ form = "settings" /\ Settings!Next
  /\ UNCHANGED <<form, VariantsOwn, ImagesOwn, ContentOwn, ProvidersOwn,
                 drawerOpen, strayed>>
ProvidersForm ==
  /\ form = "providers" /\ Providers!Next
  /\ UNCHANGED <<form, VariantsOwn, ImagesOwn, ContentOwn, SettingsOwn,
                 stored, loading, drawerOpen, strayed>>
Next == VariantsForm \/ ImagesForm \/ ContentForm \/ SettingsForm \/ ProvidersForm
vars == <<form, VariantsOwn, ImagesOwn, ContentOwn, SettingsOwn, ProvidersOwn, fields,
          stored, loading, drawer, drawerOpen, flight, heard, patient, strayed, moves>>
Spec == Init /\ [][Next]_vars
-----------------------------------------------------------------------------
\* Every form's state has its type.
TypeOK ==
  CASE form = "variants" -> Variants!TypeOK
    [] form = "images" -> Images!TypeOK
    [] form = "content" -> Content!TypeOK
    [] form = "settings" -> Settings!TypeOK
    [] form = "providers" -> Providers!TypeOK

\* The variants a product is saved with are the combinations of the options it is saved
\* with, unless a change of an option was refused while the editor was open.
VariantsFollowOptions == form = "variants" => Variants!VariantsFollowOptions

\* A product has at most one main image and no two of its images are put in one place;
\* the images and the digital content a drawer lists are the server's, once every answer
\* has arrived and none was lost.
ContentIsListed ==
  /\ form = "images" => Images!OneMain /\ Images!PlacedApart /\ Images!ImagesAgree
  /\ form = "content" => Content!ListAgrees

\* A key the list shows as sold keeps its row and its text, for an operator who waits for
\* each answer.
SoldKeysAreSafe == form = "content" => Content!SoldKeysAreSafe

\* What the operator has typed and saved is what the server has, for one who waits for
\* each answer, but for a lifetime rounded to days and a password emptied again; a mark
\* that is shown is on file; a provider is on when it was turned on.
SettingsSurvive ==
  /\ form = "settings" => Settings!SettingsAsTyped /\ Settings!MarkIsOnFile
  /\ form = "providers" => Providers!ActiveIsToggled

\* The stock of a variant survives a change of the options that keeps the variant
\* ("Preserve existing variant data where possible").  The code breaks this.
StockSurvives == Variants!StockSurvives
=============================================================================
