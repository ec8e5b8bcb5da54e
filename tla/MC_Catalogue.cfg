CONSTANTS
  news = news
  web = web
  fr = fr
  en = en
  de = de
  Domains = {news, web}
  Languages = {fr, en, de}
  Configurations <- MCConfigurations
SPECIFICATION CatalogueSpec
INVARIANTS AllOrNothing FirstFailureEndsIt Sound ListedExactly
CHECK_DEADLOCK FALSE
