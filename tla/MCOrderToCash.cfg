SPECIFICATION EntrySpec
CONSTANTS
  Lines <- MCLines
  Goods <- MCGoods
  Ordered <- MCOrdered
  Rate <- MCRate
  TaxPercent <- MCTaxPercent
  OwnTaxAccount <- MCOwnTaxAccount
  DeliveryTolerance <- MCDeliveryTolerance
  BillingTolerance <- MCBillingTolerance
  Exchange = 3
  Quantities = {1, 2}
  RequestLines = 2
  Charges <- MCCharges
  PaymentRequests <- MCPaymentRequests
  Clerks = {c1}
  Amounts = {2, 9}
  ImportedPayments <- MCImportedPayments
  Scale = 2
  Fine = 3
  MaxDocuments = 4
  None = None
INVARIANTS TypeOK CountersAreDocuments NetDeliveryWithinOrder OutstandingIsUnsettled
INVARIANTS ReceivableIsOutstanding CostFollowsGoods CreditsStayWithinInvoice OverbillingIsOneInvoice
\* An order is finished when it is delivered, billed and settled.
CHECK_DEADLOCK FALSE
