SPECIFICATION Spec
CONSTANTS
  Packages <- TwoPackages
  NoPackage = NoPackage
  MaxDiagrams = 1
  Unit = 100
  Exponents <- TenthsUsed
  Power <- PowersOfTenths
  Mine = {r1}
  Theirs = {r2}
  NoRun = NoRun
  Billing <- BillingTurnedOn
  MaxVersion = 2
  MaxAccepts = 2
INVARIANTS TypeOK SectionsAgree DiagramFollowsTheme LinksLeadOn
PROPERTIES DiagramsSettle ConsentTrail
