SPECIFICATION Spec
CONSTANTS
  None = None
  Http = {0, 199, 200, 202, 208, 299, 300, 303, 399, 400, 401, 403, 404, 408, 409, 422, 429, 499, 500, 503}
  Quantity = {0, 2, 10, 25}
  Price = {0, 1, 17, 30, 99}
  VAT = {0, 5}
  MaxLines = 2
INVARIANTS
  PassingFailureDecidesNothing
  OwnStatusDecides
  AmountsAddUp
  VATWithinRounding
CHECK_DEADLOCK FALSE
